---- MODULE Spec2Model ----
(***************************************************************************)
(* A model of peakfitter/peakfitter.py: the parameter decoders, the        *)
(* residual functions, the bounded fit drivers (peakfit,                   *)
(* mm_laguerregauss2d_fit, onedpeakfit, multipeakfit) and the cube batch   *)
(* driver collapse_peakfit.                                                *)
(*                                                                         *)
(* Numbers are integers.  A Python list or numpy array is a sequence       *)
(* (1-based here, 0-based in the source).  The external solver mpfit is an *)
(* input of each driver call: the values it returns are drawn from small   *)
(* sets.  Function default arguments are objects that live as long as the  *)
(* module does, so they are state.                                         *)
(***************************************************************************)
EXTENDS Integers, Sequences, FiniteSets, TLC

VARIABLES
    defaults,   \* the default-argument objects of the four fit drivers
    call,       \* the last driver call: its arguments, metadata and outcome
    dec,        \* a decoder application: input vector, flags, outcome
    res,        \* a residual-function evaluation on two data arrays
    cb          \* a collapse_peakfit run: cube, loop position, maps

vars == <<defaults, call, dec, res, cb>>

Idle == [phase |-> "idle"]

(***************************************************************************)
(* Bounds of the model.                                                    *)
(***************************************************************************)
MaxP == 1          \* largest max_p tried
MaxL == 1          \* largest max_l tried
MaxPeak == 2       \* largest npeak requested of multipeakfit
NChan == 2         \* spectral channels of a cube
MaxPix == 3        \* spatial pixels of a cube (A * B)

(***************************************************************************)
(* Helpers.                                                                *)
(***************************************************************************)
Abs(x) == IF x < 0 THEN -x ELSE x

Range(s) == {s[k] : k \in DOMAIN s}

RECURSIVE SeqSum(_)
SeqSum(s) == IF s = <<>> THEN 0 ELSE Head(s) + SeqSum(Tail(s))

SetMax(S) == CHOOSE x \in S : \A y \in S : y <= x

SetMin(S) == CHOOSE x \in S : \A y \in S : x <= y

\* list * n: n copies of the list, concatenated
RECURSIVE Repeat(_, _)
Repeat(s, n) == IF n <= 0 THEN <<>> ELSE s \o Repeat(s, n - 1)

\* Python's x % m for m > 0 (the result has the sign of m)
PyMod(x, m) == x % m

(***************************************************************************)
(* The parameter decoders.  Each pops scalars off the front of a working   *)
(* copy of inpars; an outcome is the decoded model, the residual-          *)
(* parameters ValueError, or the IndexError of a pop from an empty list.   *)
(***************************************************************************)

\* twodpeak done wrongly: circle does not switch rotation off
twodpeak_rotcircle(inpars, circle, rotate, vheight) ==
    LET nh   == IF vheight THEN 1 ELSE 0
        nw   == IF circle THEN 1 ELSE 2
        nr   == IF rotate THEN 1 ELSE 0
        need == nh + 3 + nw + nr
    IN  IF Len(inpars) < need
        THEN [kind |-> "IndexError"]
        ELSE IF Len(inpars) > need
        THEN [kind |-> "ValueError",
              residual |-> SubSeq(inpars, need + 1, Len(inpars)),
              inpars_old |-> inpars, circle |-> circle, rotate |-> rotate,
              vheight |-> vheight]
        ELSE [kind |-> "model", form |-> "twod",
              height |-> IF vheight THEN inpars[1] ELSE 0,
              amplitude |-> inpars[nh + 1],
              center_y |-> inpars[nh + 2], center_x |-> inpars[nh + 3],
              width_x |-> inpars[nh + 4],
              width_y |-> IF circle THEN inpars[nh + 4] ELSE inpars[nh + 5],
              rotate |-> rotate,
              rota |-> IF rotate THEN inpars[need] ELSE 0]

twodpeak_onedfunc(inpars, circle, rotate, vheight) ==
    LET nh   == IF vheight THEN 1 ELSE 0
        rot  == IF circle THEN FALSE ELSE rotate
        nw   == IF circle THEN 1 ELSE 2
        nr   == IF rot THEN 1 ELSE 0
        need == nh + 3 + nw + nr
    IN  IF Len(inpars) < need
        THEN [kind |-> "IndexError"]
        ELSE IF Len(inpars) > need
        THEN [kind |-> "ValueError",
              residual |-> SubSeq(inpars, need + 1, Len(inpars)),
              inpars_old |-> inpars, circle |-> circle, rotate |-> rot,
              vheight |-> vheight]
        ELSE [kind |-> "model", form |-> "onedfunc",
              height |-> IF vheight THEN inpars[1] ELSE 0,
              amplitude |-> inpars[nh + 1],
              center_y |-> inpars[nh + 2], center_x |-> inpars[nh + 3],
              width_x |-> inpars[nh + 4],
              width_y |-> IF circle THEN inpars[nh + 4] ELSE inpars[nh + 5],
              rotate |-> rot,
              rota |-> IF rot THEN inpars[need] ELSE 0]

twodpeak(inpars, circle, rotate, vheight) ==
    LET nh   == IF vheight THEN 1 ELSE 0
        rot  == IF circle THEN FALSE ELSE rotate
        nw   == IF circle THEN 1 ELSE 2
        nr   == IF rot THEN 1 ELSE 0
        need == nh + 3 + nw + nr
    IN  IF Len(inpars) < need
        THEN [kind |-> "IndexError"]
        ELSE IF Len(inpars) > need
        THEN [kind |-> "ValueError",
              residual |-> SubSeq(inpars, need + 1, Len(inpars)),
              inpars_old |-> inpars, circle |-> circle, rotate |-> rot,
              vheight |-> vheight]
        ELSE [kind |-> "model", form |-> "twod",
              height |-> IF vheight THEN inpars[1] ELSE 0,
              amplitude |-> inpars[nh + 1],
              center_y |-> inpars[nh + 2], center_x |-> inpars[nh + 3],
              width_x |-> inpars[nh + 4],
              width_y |-> IF circle THEN inpars[nh + 4] ELSE inpars[nh + 5],
              rotate |-> rot,
              rota |-> IF rot THEN inpars[need] ELSE 0]

\* inpars[-amplen:] : the last amplen entries, or all of a shorter list
Tail_n(s, n) == IF Len(s) <= n THEN s ELSE SubSeq(s, Len(s) - n + 1, Len(s))

\* del inpars[-amplen:]
DelTail_n(s, n) == IF Len(s) <= n THEN <<>> ELSE SubSeq(s, 1, Len(s) - n)

mm_laguerregauss_2d(inpars, max_p, max_l, circle, rotate, vheight) ==
    LET amplen == (max_p + 1) * (max_l + 1)
        amps   == Tail_n(inpars, amplen)
        front  == DelTail_n(inpars, amplen)
        nh     == IF vheight THEN 1 ELSE 0
        rot    == IF circle THEN FALSE ELSE rotate
        nw     == IF circle THEN 1 ELSE 2
        nr     == IF rot THEN 1 ELSE 0
        need   == nh + 2 + nw + nr
    IN  IF max_l # 0 /\ Len(amps) # amplen
        THEN [kind |-> "ReshapeError"]
        ELSE IF Len(front) < need
        THEN [kind |-> "IndexError"]
        ELSE IF Len(front) > need
        THEN [kind |-> "ValueError",
              residual |-> SubSeq(front, need + 1, Len(front)),
              inpars_old |-> inpars, circle |-> circle, rotate |-> rot,
              vheight |-> vheight]
        ELSE [kind |-> "model", form |-> "mm",
              height |-> IF vheight THEN front[1] ELSE 0,
              amps |-> amps, max_p |-> max_p, max_l |-> max_l,
              center_x |-> front[nh + 1], center_y |-> front[nh + 2],
              width_x |-> front[nh + 3],
              width_y |-> IF circle THEN front[nh + 3] ELSE front[nh + 4],
              rotate |-> rot,
              rota |-> IF rot THEN front[need] ELSE 0]

Decoders == {"twodpeak_onedfunc", "twodpeak", "mm_laguerregauss_2d"}

Decode(d, inpars, max_p, max_l, circle, rotate, vheight) ==
    CASE d = "twodpeak_onedfunc" -> twodpeak_onedfunc(inpars, circle, rotate, vheight)
      [] d = "twodpeak" -> twodpeak(inpars, circle, rotate, vheight)
      [] d = "mm_laguerregauss_2d" ->
             mm_laguerregauss_2d(inpars, max_p, max_l, circle, rotate, vheight)

\* the length of a complete vector of a decoder's layout (spec, section 3)
CompleteLen(d, max_p, max_l, circle, rotate, vheight) ==
    (IF vheight THEN 1 ELSE 0) + 2 + (IF circle THEN 1 ELSE 2)
    + (IF rotate /\ ~circle THEN 1 ELSE 0)
    + (IF d = "mm_laguerregauss_2d" THEN (max_p + 1) * (max_l + 1) ELSE 1)

(***************************************************************************)
(* Model evaluation.  Angles are in degrees and are multiples of 90, so    *)
(* that the rotation is exact.  A peak shape is a caller's function; the   *)
(* ones used here are boxes equal to 1 at zero offset, taking either       *)
(* (offset, width) or (dx, dy, width_x, width_y).                          *)
(***************************************************************************)
Cosd(a) == CASE a % 360 = 0 -> 1 [] a % 360 = 90 -> 0
             [] a % 360 = 180 -> -1 [] a % 360 = 270 -> 0

Sind(a) == CASE a % 360 = 0 -> 0 [] a % 360 = 90 -> 1
             [] a % 360 = 180 -> 0 [] a % 360 = 270 -> -1

Box1(d, w) == IF Abs(d) < w THEN 1 ELSE 0

Box2(dx, dy, wx, wy) == IF Abs(dx) < wx /\ Abs(dy) < wy THEN 1 ELSE 0

PeakFuncs == {[arity |-> 2], [arity |-> 4]}

\* rcen_x done wrongly: the center is not rotated
rcen_x_unrotated(m) == m.center_x

\* the rotated center computed by the decoders
rcen_x(m) == IF m.rotate
             THEN m.center_x * Cosd(m.rota) - m.center_y * Sind(m.rota)
             ELSE m.center_x

rcen_y(m) == IF m.rotate
             THEN m.center_x * Sind(m.rota) + m.center_y * Cosd(m.rota)
             ELSE m.center_y

rot_xp(m, x, y) == IF m.rotate THEN x * Cosd(m.rota) - y * Sind(m.rota) ELSE x

rot_yp(m, x, y) == IF m.rotate THEN x * Sind(m.rota) + y * Cosd(m.rota) ELSE y

\* twodpeak_onedfunc's rotpeak at one grid point
rotpeak_onedfunc(m, x, y) ==
    m.height + m.amplitude * Box1(rot_xp(m, x, y) - rcen_x(m), m.width_x)
                           * Box1(rot_yp(m, x, y) - rcen_y(m), m.width_y)

\* twodpeak's rotpeak at one grid point
rotpeak_twod(m, x, y) ==
    m.height + m.amplitude * Box2(rot_xp(m, x, y) - rcen_x(m),
                                  rot_yp(m, x, y) - rcen_y(m),
                                  m.width_x, m.width_y)

\* mm_laguerregauss_2d's rotpeak at one grid point: |height + sum over
\* (p, l) of amps[p, l] * laguerre_gauss2d(xp, yp, p, l)|^2, kept as the
\* term that determines it; xp and yp are fractions <<numerator, width>>.
rotpeak_mm(m, x, y) ==
    [height |-> m.height, amps |-> m.amps, max_p |-> m.max_p, max_l |-> m.max_l,
     xp |-> IF m.rotate THEN <<rot_xp(m, x, y) - rcen_x(m), m.width_x>>
                        ELSE <<x, m.width_x>>,
     yp |-> IF m.rotate THEN <<rot_yp(m, x, y) - rcen_y(m), m.width_y>>
                        ELSE <<y, m.width_y>>]

(***************************************************************************)
(* Residual functions of the 2D drivers.  A data array is a shape, values  *)
(* per cell and a mask per cell; np.indices numbers rows and columns from  *)
(* 0; compressed() keeps the unmasked entries in row-major order.  A       *)
(* residual entry (data - model) / err is kept as the three values.        *)
(***************************************************************************)
Cells(shape) == (0..(shape[1] - 1)) \X (0..(shape[2] - 1))

CellSeq(shape) ==
    [k \in 1..(shape[1] * shape[2]) |->
        <<(k - 1) \div shape[2], (k - 1) % shape[2]>>]

\* compressed done wrongly: every entry is kept, masked or not
compressed_all(shape, mask, delta) ==
    [k \in 1..Len(CellSeq(shape)) |-> delta[CellSeq(shape)[k]]]

compressed(shape, mask, delta) ==
    LET Unmasked(c) == ~mask[c]
        kept == SelectSeq(CellSeq(shape), Unmasked)
    IN  [k \in 1..Len(kept) |-> delta[kept[k]]]

ErrAt(err, c) == IF err = <<>> THEN 1 ELSE err[c]

\* peakfit.mpfitfun(data, err)(p)
peakfit_f(peakfunc, shape, data, mask, err, p, circle, rotate, vheight) ==
    LET m == twodpeak(p, circle, rotate, vheight)
    IN  IF m.kind # "model" THEN m
        ELSE IF peakfunc.arity # 4 THEN [kind |-> "TypeError"]
        ELSE [kind |-> "residual",
              vec |-> compressed(shape, mask,
                        [c \in Cells(shape) |->
                            [data |-> data[c],
                             model |-> rotpeak_twod(m, c[1], c[2]),
                             err |-> ErrAt(err, c)]])]

\* mm_laguerregauss2d_fit.mpfitfun(data, err)(p)
mm_f(max_p, max_l, shape, data, mask, err, p, circle, rotate, vheight) ==
    LET m == mm_laguerregauss_2d(p, max_p, max_l, circle, rotate, vheight)
    IN  IF m.kind # "model" THEN m
        ELSE [kind |-> "residual",
              vec |-> compressed(shape, mask,
                        [c \in Cells(shape) |->
                            [data |-> data[c],
                             model |-> rotpeak_mm(m, c[1], c[2]),
                             err |-> ErrAt(err, c)]])]

(***************************************************************************)
(* Decoder runs: a vector of distinct values, complete for the flags, one  *)
(* short or one long, is handed to one of the decoders.                    *)
(***************************************************************************)
VecBases == {10, 20}

DecInputs ==
    { [phase |-> "input", decoder |-> d, max_p |-> p, max_l |-> l,
       circle |-> c, rotate |-> r, vheight |-> v,
       inpars |-> [k \in 1..(CompleteLen(d, p, l, c, r, v) + x) |-> b + k],
       extra |-> x] :
      d \in Decoders, p \in 0..MaxP, l \in 0..MaxL,
      c \in BOOLEAN, r \in BOOLEAN, v \in BOOLEAN, b \in VecBases,
      x \in {-1, 0, 1} }

InitDecode ==
    /\ dec \in { i \in DecInputs :
                   i.decoder = "mm_laguerregauss_2d" \/ (i.max_p = 0 /\ i.max_l = 0) }
    /\ defaults = Idle /\ call = Idle /\ res = Idle /\ cb = Idle

RunDecoder ==
    /\ dec.phase = "input"
    /\ dec' = [dec EXCEPT !.phase = "done"] @@
              [out |-> Decode(dec.decoder, dec.inpars, dec.max_p, dec.max_l,
                              dec.circle, dec.rotate, dec.vheight)]
    /\ UNCHANGED <<defaults, call, res, cb>>

NextDecode == RunDecoder

SpecDecode == InitDecode /\ [][NextDecode]_vars

\* C2 as claimed: under every flag combination each of the three decoders
\* answers a complete vector plus one trailing value with the residual-
\* parameters error, and the residual it reports is that trailing value.
C2_ResidualIsTrailingValue ==
    (dec.phase = "done" /\ dec.extra = 1)
        => /\ dec.out.kind = "ValueError"
           /\ dec.out.residual = <<dec.inpars[Len(dec.inpars)]>>

\* C2 amended: the error is raised by all three decoders; twodpeak_onedfunc
\* and twodpeak report the trailing value, mm_laguerregauss_2d (which takes
\* the mode amplitudes from the tail first) reports the first of the
\* (max_p+1)*(max_l+1) values that precede the trailing one.
C2_ResidualError ==
    (dec.phase = "done" /\ dec.extra = 1)
        => LET n == Len(dec.inpars)
               amplen == (dec.max_p + 1) * (dec.max_l + 1)
           IN  /\ dec.out.kind = "ValueError"
               /\ dec.out.residual =
                     IF dec.decoder = "mm_laguerregauss_2d"
                     THEN <<dec.inpars[n - amplen]>>
                     ELSE <<dec.inpars[n]>>

C2_Witness ==
    /\ dec.phase = "done" /\ dec.extra = 1
    /\ dec.decoder = "mm_laguerregauss_2d"
    /\ dec.circle /\ dec.rotate
    /\ dec.out.kind = "ValueError"

(***************************************************************************)
(* Residual runs: the residual function of peakfit or of                   *)
(* mm_laguerregauss2d_fit is evaluated at one parameter vector on two data *)
(* arrays that have the same mask and agree on every unmasked cell.  The   *)
(* drivers force vheight to true before they build the residual function.  *)
(***************************************************************************)
DataVals == {0, 3}

MaskedVals == {-9, 9}

ResAngles == {0, 90}

\* a parameter vector of the driver's layout, or that vector cut by one
ResParams(fn, circle, rotate, rota, short) ==
    LET full == IF fn = "peakfit"
                THEN <<1, 2, 0, 1>> \o (IF circle THEN <<1>> ELSE <<1, 2>>)
                     \o (IF rotate /\ ~circle THEN <<rota>> ELSE <<>>)
                ELSE <<1, 0, 1>> \o (IF circle THEN <<1>> ELSE <<1, 2>>)
                     \o (IF rotate /\ ~circle THEN <<rota>> ELSE <<>>)
                     \o <<2, 1>>
    IN  IF short THEN SubSeq(full, 1, Len(full) - 1) ELSE full

ResInputs ==
    { [phase |-> "input", fn |-> fn, shape |-> sh, mask |-> mk,
       data1 |-> [c \in Cells(sh) |-> IF mk[c] THEN mv ELSE d[c]],
       data2 |-> [c \in Cells(sh) |-> IF mk[c] THEN 0 - mv ELSE d[c]],
       err |-> IF e = 0 THEN <<>> ELSE [c \in Cells(sh) |-> e],
       p |-> ResParams(fn, ci, ro, ra, st), circle |-> ci, rotate |-> ro,
       peakfunc |-> pk] :
      fn \in {"peakfit", "mm_laguerregauss2d_fit"},
      sh \in {<<1, 2>>}, mk \in [Cells(<<1, 2>>) -> BOOLEAN],
      d \in [Cells(<<1, 2>>) -> DataVals], mv \in MaskedVals, e \in {0, 2},
      ci \in BOOLEAN, ro \in BOOLEAN, ra \in ResAngles, st \in BOOLEAN,
      pk \in PeakFuncs }
    \cup
    { [phase |-> "input", fn |-> fn, shape |-> sh, mask |-> mk,
       data1 |-> [c \in Cells(sh) |-> IF mk[c] THEN mv ELSE d[c]],
       data2 |-> [c \in Cells(sh) |-> IF mk[c] THEN 0 - mv ELSE d[c]],
       err |-> IF e = 0 THEN <<>> ELSE [c \in Cells(sh) |-> e],
       p |-> ResParams(fn, ci, ro, ra, st), circle |-> ci, rotate |-> ro,
       peakfunc |-> pk] :
      fn \in {"peakfit", "mm_laguerregauss2d_fit"},
      sh \in {<<2, 2>>}, mk \in [Cells(<<2, 2>>) -> BOOLEAN],
      d \in [Cells(<<2, 2>>) -> DataVals], mv \in MaskedVals, e \in {0, 2},
      ci \in BOOLEAN, ro \in BOOLEAN, ra \in ResAngles, st \in {FALSE},
      pk \in {[arity |-> 4]} }

InitResid ==
    /\ res \in ResInputs
    /\ defaults = Idle /\ call = Idle /\ dec = Idle /\ cb = Idle

\* the driver's residual function at res.p on one data array
Residual(r, data) ==
    IF r.fn = "peakfit"
    THEN peakfit_f(r.peakfunc, r.shape, data, r.mask, r.err, r.p,
                   r.circle, r.rotate, TRUE)
    ELSE mm_f(1, 0, r.shape, data, r.mask, r.err, r.p, r.circle, r.rotate, TRUE)

EvalResidual ==
    /\ res.phase = "input"
    /\ res' = [res EXCEPT !.phase = "done"] @@
              [out1 |-> Residual(res, res.data1),
               out2 |-> Residual(res, res.data2)]
    /\ UNCHANGED <<defaults, call, dec, cb>>

NextResid == EvalResidual

SpecResid == InitResid /\ [][NextResid]_vars

\* C4: the residual vector of peakfit and of mm_laguerregauss2d_fit has one
\* entry per unmasked data cell, and two data arrays with the same mask
\* that agree on every unmasked cell give the same residual at every
\* parameter vector: the values stored in masked cells never enter it.
C4_MaskIndependence ==
    res.phase = "done"
        => /\ res.out1 = res.out2
           /\ res.out1.kind = "residual"
                => /\ Len(res.out1.vec)
                        = Cardinality({c \in Cells(res.shape) : ~res.mask[c]})
                   /\ \A k \in 1..Len(res.out1.vec) :
                        res.out1.vec[k].data \in DataVals

C4_Witness ==
    /\ res.phase = "done"
    /\ res.out1.kind = "residual"
    /\ res.data1 # res.data2
    /\ \E c \in Cells(res.shape) : ~res.mask[c]
    /\ res.fn = "mm_laguerregauss2d_fit"

(***************************************************************************)
(* collapse_peakfit.  A cube is a 3D array: a shape and a value per        *)
(* 0-based index triple.  The 1D fit of a spectrum is onedpeakfit on the   *)
(* external solver: what it returns, or that it raises, is a function of   *)
(* the spectrum, drawn when the run starts (fit).                          *)
(***************************************************************************)
NaN == <<>>

Num(v) == <<v>>

\* the index triple with positions 0 and axis exchanged
SwapIdx(t, axis) ==
    CASE axis = 0 -> t
      [] axis = 1 -> <<t[2], t[1], t[3]>>
      [] axis = 2 -> <<t[3], t[2], t[1]>>

\* cube.swapaxes(0, axis)
swapaxes(c, axis) ==
    [shape |-> SwapIdx(c.shape, axis),
     at |-> [t \in (0..(SwapIdx(c.shape, axis)[1] - 1))
                   \X (0..(SwapIdx(c.shape, axis)[2] - 1))
                   \X (0..(SwapIdx(c.shape, axis)[3] - 1)) |->
                c.at[SwapIdx(t, axis)]]]

\* cube[:, i, j]
SpectrumAt(c, i, j) == [k \in 1..c.shape[1] |-> c.at[<<k - 1, i, j>>]]

\* n^2 times the variance of a vector of n values; its std is Sqrt(VarN)/n
VarN(s) ==
    Len(s) * SeqSum([k \in 1..Len(s) |-> s[k] * s[k]]) - SeqSum(s) * SeqSum(s)

\* cube.std(axis=axis), flattened, as VarN of every spectrum along axis
std_coll(c, axis) ==
    LET sw == swapaxes(c, axis)
        n  == sw.shape[2] * sw.shape[3]
    IN  [k \in 1..n |->
            VarN(SpectrumAt(sw, (k - 1) \div sw.shape[3], (k - 1) % sw.shape[3]))]

\* median(std_coll[std_coll == std_coll]) after the zeros were set to nan:
\* the two middle values of the sorted non-zero entries (the same value
\* twice when their number is odd), whose mean is the median; NaN if none
mean_std(c, axis) ==
    LET NonZero(v) == v # 0
        sorted == SortSeq(SelectSeq(std_coll(c, axis), NonZero), <)
        n == Len(sorted)
    IN  IF n = 0 THEN NaN
        ELSE <<sorted[(n - 1) \div 2 + 1], sorted[n \div 2 + 1]>>

\* a > c * (Sqrt(v1) + Sqrt(v2)) / (2 * n), for a >= 0 and c >= 0
ExceedsMedian(a, c, n, v1, v2) ==
    LET lhs == 2 * n * a
        d   == lhs * lhs - c * c * (v1 + v2)
    IN  IF c = 0 THEN lhs > 0
        ELSE d > 0 /\ d * d > 4 * c * c * c * c * v1 * v2

\* PassesGate done wrongly: the largest magnitude, whatever negamp says
PassesGate_absmax(spec, negamp, nsigcut, med) ==
    /\ med # NaN
    /\ ExceedsMedian(SetMax({Abs(v) : v \in Range(spec)}), nsigcut, Len(spec),
                     med[1], med[2])

\* np.abs(extremum(cube[:,i,j])) > (mean_std*nsigcut)
PassesGate(spec, negamp, nsigcut, med) ==
    LET extremum == IF negamp THEN SetMin(Range(spec)) ELSE SetMax(Range(spec))
    IN  /\ med # NaN
        /\ ExceedsMedian(Abs(extremum), nsigcut, Len(spec), med[1], med[2])

\* Accepts done wrongly: the amplitude is compared with the height's error
Accepts_wrongerr(fit, mppsigcut) == Abs(fit.mpp[2]) > fit.mpperr[1] * mppsigcut

\* np.abs(mpp[1]) > (mpperr[1]*mppsigcut)
Accepts(fit, mppsigcut) == Abs(fit.mpp[2]) > fit.mpperr[2] * mppsigcut

MapNames == {"width_arr", "amp_arr", "chi2_arr", "offset_arr",
             "width_err", "amp_err", "offset_err"}

\* np.zeros(cube.shape[1:]) + np.nan, for each of the seven maps
EmptyMaps(sw) ==
    [m \in MapNames |->
        [ij \in (0..(sw.shape[2] - 1)) \X (0..(sw.shape[3] - 1)) |-> NaN]]

\* the seven assignments at [i, j]
WriteMaps(maps, i, j, fit) ==
    [maps EXCEPT !["width_arr"][<<i, j>>] = Num(fit.mpp[4]),
                 !["offset_arr"][<<i, j>>] = Num(fit.mpp[3]),
                 !["chi2_arr"][<<i, j>>] = Num(fit.chi2),
                 !["amp_arr"][<<i, j>>] = Num(fit.mpp[2]),
                 !["width_err"][<<i, j>>] = Num(fit.mpperr[4]),
                 !["offset_err"][<<i, j>>] = Num(fit.mpperr[3]),
                 !["amp_err"][<<i, j>>] = Num(fit.mpperr[2])]

\* the spectra a pixel may hold, by channel
Templates == {"flat", "both", "neg"}

TemplateSpectrum(t) ==
    [k \in 1..NChan |->
        CASE t = "flat" -> 0
          [] t = "both" -> IF k = 1 THEN 5 ELSE IF k = 2 THEN -5 ELSE 0
          [] t = "neg"  -> IF k = 1 THEN 1 ELSE IF k = 2 THEN -4 ELSE 0]

\* what onedpeakfit does on a spectrum: raises, or returns mpp, mpperr, chi2
FitOutcomes ==
    { [kind |-> "raise"],
      [kind |-> "fit", mpp |-> <<0, 4, 1, 2>>, mpperr |-> <<1, 1, 3, 2>>, chi2 |-> 5],
      [kind |-> "fit", mpp |-> <<1, -6, 0, 1>>, mpperr |-> <<1, 2, 1, 4>>, chi2 |-> 7],
      [kind |-> "fit", mpp |-> <<0, 2, 1, 1>>, mpperr |-> <<1, 3, 1, 1>>, chi2 |-> 9] }

SpatialShapes == {sh \in (1..MaxPix) \X (1..MaxPix) : sh[1] * sh[2] <= MaxPix}

\* the cube whose spectrum at spatial pixel (a, b) is pix[a, b], the
\* spectral axis being axis and the spatial axes keeping their order
MakeCube(sh, pix, axis) ==
    LET shape == CASE axis = 0 -> <<NChan, sh[1], sh[2]>>
                   [] axis = 1 -> <<sh[1], NChan, sh[2]>>
                   [] axis = 2 -> <<sh[1], sh[2], NChan>>
        Spatial(t) == CASE axis = 0 -> <<t[2], t[3]>>
                        [] axis = 1 -> <<t[1], t[3]>>
                        [] axis = 2 -> <<t[1], t[2]>>
    IN  [shape |-> shape,
         at |-> [t \in (0..(shape[1] - 1)) \X (0..(shape[2] - 1))
                       \X (0..(shape[3] - 1)) |->
                    TemplateSpectrum(pix[Spatial(t)])[t[axis + 1] + 1]]]

\* the state after lines 986-999: the median computed, the cube swapped,
\* the maps allocated
CubeStart(sh, px, ax, ng, ns, re, ft) ==
    LET cube == MakeCube(sh, px, ax)
    IN  [phase |-> "loop", spatial |-> sh, pix |-> px, axis |-> ax,
         negamp |-> ng, nsigcut |-> ns, mppsigcut |-> 1, return_errors |-> re,
         fit |-> ft, mean_std |-> mean_std(cube, ax), sw |-> swapaxes(cube, ax),
         maps |-> EmptyMaps(swapaxes(cube, ax)),
         pos |-> 0, log |-> <<>>, ret |-> <<>>]

\* the all-zero spectrum never passes the gate: its outcome is left fixed
InitCube ==
    /\ \E sh \in SpatialShapes :
         \E px \in [(0..(sh[1] - 1)) \X (0..(sh[2] - 1)) -> Templates] :
           \E ax \in {0, 2}, ng \in BOOLEAN, ns \in {1, 2}, re \in BOOLEAN :
             \E ft \in [Templates \ {"flat"} -> FitOutcomes] :
               cb = CubeStart(sh, px, ax, ng, ns, re,
                              [t \in Templates |->
                                  IF t = "flat" THEN [kind |-> "raise"] ELSE ft[t]])
    /\ defaults = Idle /\ call = Idle /\ dec = Idle /\ res = Idle

\* the loop's bounds and its current [i, j], in row-major order
NPix == cb.sw.shape[2] * cb.sw.shape[3]

CurI == cb.pos \div cb.sw.shape[3]

CurJ == cb.pos % cb.sw.shape[3]

\* the template whose spectrum is s
TemplateOf(s) == CHOOSE t \in Templates : TemplateSpectrum(t) = s

\* OnFitRaise done wrongly: the exception is swallowed and the loop goes on
OnFitRaise_swallow(c, entry) ==
    [c EXCEPT !.pos = @ + 1, !.log = Append(@, entry)]

\* onedpeakfit raises (line 829, or any error under it): nothing in
\* collapse_peakfit catches it, so the call ends there
OnFitRaise(c, entry) ==
    [c EXCEPT !.phase = "raised", !.pos = @ + 1, !.log = Append(@, entry)]

\* one pass of the inner loop body, lines 1011-1022
CubeStep ==
    /\ cb.phase = "loop" /\ cb.pos < NPix
    /\ LET s   == SpectrumAt(cb.sw, CurI, CurJ)
           med == cb.mean_std
           out == cb.fit[TemplateOf(s)]
       IN  \/ /\ ~PassesGate(s, cb.negamp, cb.nsigcut, med)
              /\ cb' = [cb EXCEPT !.pos = @ + 1]
           \/ /\ PassesGate(s, cb.negamp, cb.nsigcut, med)
              /\ out.kind = "raise"
              /\ cb' = OnFitRaise(cb, [i |-> CurI, j |-> CurJ, spec |-> s])
           \/ /\ PassesGate(s, cb.negamp, cb.nsigcut, med)
              /\ out.kind = "fit"
              /\ cb' = [cb EXCEPT !.pos = @ + 1,
                                  !.log = Append(@, [i |-> CurI, j |-> CurJ, spec |-> s]),
                                  !.maps = IF Accepts(out, cb.mppsigcut)
                                           THEN WriteMaps(@, CurI, CurJ, out)
                                           ELSE @]
    /\ UNCHANGED <<defaults, call, dec, res>>

\* lines 1030-1033
CubeReturn ==
    /\ cb.phase = "loop" /\ cb.pos = NPix
    /\ cb' = [cb EXCEPT !.phase = "returned",
                        !.ret = IF cb.return_errors
                                THEN <<cb.maps["width_arr"], cb.maps["offset_arr"],
                                       cb.maps["amp_arr"], cb.maps["width_err"],
                                       cb.maps["offset_err"], cb.maps["amp_err"],
                                       cb.maps["chi2_arr"]>>
                                ELSE <<cb.maps["width_arr"], cb.maps["offset_arr"],
                                       cb.maps["amp_arr"], cb.maps["chi2_arr"]>>]
    /\ UNCHANGED <<defaults, call, dec, res>>

NextCube == CubeStep \/ CubeReturn

SpecCube == InitCube /\ [][NextCube]_vars

(***************************************************************************)
(* Properties of collapse_peakfit.                                         *)
(***************************************************************************)
\* the loop's pixels, numbered in row-major order of the maps
PixI(k) == k \div cb.sw.shape[3]

PixJ(k) == k % cb.sw.shape[3]

PixSpectrum(k) == SpectrumAt(cb.sw, PixI(k), PixJ(k))

Fitted(k) == \E n \in DOMAIN cb.log : cb.log[n].i = PixI(k) /\ cb.log[n].j = PixJ(k)

LogPos(n) == cb.log[n].i * cb.sw.shape[3] + cb.log[n].j

\* the VarN of the spectra of the spatial pixels whose std is not zero
C8_NonZeroVars ==
    LET px == cb.pix
        nz == {ab \in DOMAIN px : VarN(TemplateSpectrum(px[ab])) # 0}
    IN  [ab \in nz |-> VarN(TemplateSpectrum(px[ab]))]

\* the k-th smallest (k from 0) value of a function's values, by counting
C8_Kth(f, k) ==
    CHOOSE v \in Range(f) :
        /\ Cardinality({x \in DOMAIN f : f[x] < v}) <= k
        /\ Cardinality({x \in DOMAIN f : f[x] <= v}) > k

\* a > nsigcut * median of the non-zero per-pixel standard deviations
C8_AboveCut(a) ==
    LET f == C8_NonZeroVars
        n == Cardinality(DOMAIN f)
    IN  /\ n > 0
        /\ ExceedsMedian(a, cb.nsigcut, NChan,
                         C8_Kth(f, (n - 1) \div 2), C8_Kth(f, n \div 2))

\* the gate as coded: the absolute value of the spectrum's maximum, or of
\* its minimum when negamp is set
C8_CodedGate(s) ==
    C8_AboveCut(Abs(IF cb.negamp THEN SetMin(Range(s)) ELSE SetMax(Range(s))))

\* C8 as claimed: a pixel the loop has passed was fitted if and only if the
\* maximum over channels of the absolute value of its spectrum exceeds
\* nsigcut times the median of the non-zero per-pixel standard deviations.
C8_GateIsMaxAbs ==
    cb.phase # "idle"
        => \A k \in 0..(cb.pos - 1) :
              Fitted(k) <=> C8_AboveCut(SetMax({Abs(v) : v \in Range(PixSpectrum(k))}))

\* C8 amended: a pixel the loop has reached was fitted if and only if the
\* absolute value of its spectrum's maximum (negamp false) or of its
\* minimum (negamp true) exceeds nsigcut times that median.
C8_GateIsAbsExtremum ==
    cb.phase # "idle"
        => \A k \in 0..(cb.pos - 1) : Fitted(k) <=> C8_CodedGate(PixSpectrum(k))

C8_Witness ==
    /\ cb.phase = "returned"
    /\ \E k \in 0..(cb.pos - 1) :
          /\ Fitted(k) /\ cb.negamp
          /\ SetMax(Range(PixSpectrum(k))) < Abs(SetMin(Range(PixSpectrum(k))))
    /\ \E k \in 0..(cb.pos - 1) : ~Fitted(k)

\* what the fit of spectrum s gave
FitOf(s) == cb.fit[TemplateOf(s)]

\* the value each map takes from a fit
MapValue(name, f) ==
    CASE name = "width_arr"  -> Num(f.mpp[4])
      [] name = "offset_arr" -> Num(f.mpp[3])
      [] name = "amp_arr"    -> Num(f.mpp[2])
      [] name = "chi2_arr"   -> Num(f.chi2)
      [] name = "width_err"  -> Num(f.mpperr[4])
      [] name = "offset_err" -> Num(f.mpperr[3])
      [] name = "amp_err"    -> Num(f.mpperr[2])

\* the maps as returned, by name
RetNames ==
    IF cb.return_errors
    THEN <<"width_arr", "offset_arr", "amp_arr", "width_err", "offset_err",
           "amp_err", "chi2_arr">>
    ELSE <<"width_arr", "offset_arr", "amp_arr", "chi2_arr">>

\* C6: when collapse_peakfit returns, at every pixel either all seven maps
\* are NaN, or the spectrum passed the gate, the 1D fit ran on it, the
\* absolute fitted amplitude exceeded mppsigcut times the amplitude error
\* and every map holds that fit's value; and the fit ran only on pixels
\* that pass the gate.
C6_MapsNaNOrAcceptedFit ==
    cb.phase = "returned"
        => /\ \A k \in 0..(NPix - 1) :
                LET ij == <<PixI(k), PixJ(k)>>
                    f  == FitOf(PixSpectrum(k))
                IN  \/ \A m \in MapNames : cb.maps[m][ij] = NaN
                    \/ /\ C8_CodedGate(PixSpectrum(k))
                       /\ Fitted(k)
                       /\ f.kind = "fit"
                       /\ Abs(f.mpp[2]) > cb.mppsigcut * f.mpperr[2]
                       /\ \A m \in MapNames : cb.maps[m][ij] = MapValue(m, f)
           /\ \A n \in DOMAIN cb.log : C8_CodedGate(cb.log[n].spec)
           /\ \A n \in DOMAIN RetNames : cb.ret[n] = cb.maps[RetNames[n]]

C6_Witness ==
    /\ cb.phase = "returned"
    /\ \E k \in 0..(NPix - 1) : cb.maps["amp_arr"][<<PixI(k), PixJ(k)>>] = Num(-6)
    /\ \E k \in 0..(NPix - 1) :
          Fitted(k) /\ cb.maps["amp_arr"][<<PixI(k), PixJ(k)>>] = NaN
    /\ \E k \in 0..(NPix - 1) : ~Fitted(k)

ExpectedEntry(name, s) ==
    IF C8_CodedGate(s) /\ FitOf(s).kind = "fit"
       /\ Abs(FitOf(s).mpp[2]) > cb.mppsigcut * FitOf(s).mpperr[2]
    THEN MapValue(name, FitOf(s))
    ELSE NaN

\* C9 as claimed: for a cube of shape (A, B, S) fitted along axis 2, every
\* returned map has shape (A, B) and its entry at [a, b] is the result for
\* the spectrum cube[a, b, :].
C9_MapsFollowCubeShape ==
    (cb.phase = "returned" /\ cb.axis = 2)
        => \A n \in DOMAIN RetNames :
              /\ DOMAIN cb.ret[n]
                   = (0..(cb.spatial[1] - 1)) \X (0..(cb.spatial[2] - 1))
              /\ \A ab \in DOMAIN cb.pix :
                    cb.ret[n][ab]
                      = ExpectedEntry(RetNames[n], TemplateSpectrum(cb.pix[ab]))

\* what the code does along axis 2: swapaxes(0, 2) turns (A, B, S) into
\* (S, B, A), so the maps have shape (B, A) and hold at [b, a] the result
\* for cube[a, b, :]; along axis 0 the maps do follow the cube.
MapsTransposedOnAxis2 ==
    cb.phase = "returned"
        => \A n \in DOMAIN RetNames : \A ab \in DOMAIN cb.pix :
              LET at == IF cb.axis = 2 THEN <<ab[2], ab[1]>> ELSE ab
              IN  /\ at \in DOMAIN cb.ret[n]
                  /\ cb.ret[n][at]
                       = ExpectedEntry(RetNames[n], TemplateSpectrum(cb.pix[ab]))

\* ======================================================================
\* The fit drivers: peakfit, mm_laguerregauss2d_fit, onedpeakfit and
\* multipeakfit.  Python truth values held in list arguments are the
\* integers 0 and 1 (bool is a subclass of int, and the drivers themselves
\* store the integer 1 into `fixed`).  A default argument that is a list or
\* an array is one object created when the function is defined; the objects
\* the drivers write to are the fields of `defaults`.
\* ======================================================================

\* An omitted keyword argument, and a supplied one.
None == [given |-> FALSE, v |-> <<>>]

Some(v) == [given |-> TRUE, v |-> v]

\* The object an argument names: the caller's, or the default object.
Arg(o, d) == IF o.given THEN o.v ELSE d

\* The default objects as the def statements create them.
FreshDefaults ==
  [peakfit_fixed |-> <<0, 0, 0, 0, 0, 0, 0>>,
   mm_fixed |-> <<0, 0, 0, 0, 0, 0>>,
   onedpeakfit_fixed |-> <<0, 0, 0, 0>>,
   multipeakfit_params |-> <<1, 0, 1>>,
   multipeakfit_fixed |-> <<0, 0, 0>>,
   multipeakfit_limitedmin |-> <<0, 0, 1>>,
   multipeakfit_limitedmax |-> <<0, 0, 0>>,
   multipeakfit_minpars |-> <<0, 0, 0>>,
   multipeakfit_maxpars |-> <<0, 0, 0>>]

\* Default objects no driver writes to.
peakfit_defaults ==
  [limitedmin |-> <<0, 0, 0, 0, 1, 1, 1>>,
   limitedmax |-> <<0, 0, 0, 0, 0, 0, 1>>,
   minpars |-> <<0, 0, 0, 0, 0, 0, 0>>,
   maxpars |-> <<0, 0, 0, 0, 0, 0, 180>>]

mm_defaults ==
  [limitedmin |-> <<0, 1, 1, 1, 1, 1>>,
   limitedmax |-> <<0, 0, 0, 0, 0, 1>>,
   minpars |-> <<0, 0, 0, 0, 0, 0>>,
   maxpars |-> <<0, 0, 0, 0, 0, 180>>,
   minamp |-> 0, maxamp |-> 2, limitedampmin |-> 1, limitedampmax |-> 0]

onedpeakfit_defaults ==
  [params |-> <<0, 1, 0, 1>>,
   limitedmin |-> <<0, 0, 0, 1>>,
   limitedmax |-> <<0, 0, 0, 0>>,
   minpars |-> <<0, 0, 0, 0>>,
   maxpars |-> <<0, 0, 0, 0>>]

\* What a driver's run leaves behind: the metadata it built (empty when it
\* raised before building it), the effective peak count (multipeakfit; 0
\* elsewhere), its outcome and the default objects after the run.
Ran(parinfo, npeak, out, d) ==
  [parinfo |-> parinfo, npeak |-> npeak, out |-> out, defaults |-> d]

Raise(exc) == [kind |-> "raise", exc |-> exc, msg |-> ""]

\* raise Exception(<the solver's message>)
SolverError(msg) == [kind |-> "raise", exc |-> "Exception", msg |-> msg]

\* One entry of parinfo; n counts from 0 as in the source.
ParEntry(n, v, params, minpars, maxpars, limitedmin, limitedmax, fixed, name) ==
  [n |-> n, value |-> params[v + 1],
   limits |-> <<minpars[n + 1], maxpars[n + 1]>>,
   limited |-> <<limitedmin[n + 1], limitedmax[n + 1]>>,
   fixed |-> fixed[n + 1], parname |-> name, error |-> 0]

\* for i in range(len(params)): clamp params[i] into its active limits.
\* The loop raises IndexError when it indexes a list past its end.
ClampOne(v, lo, hi, limlo, limhi) ==
  LET v1 == IF v > hi /\ limhi # 0 THEN hi ELSE v
  IN  IF v1 < lo /\ limlo # 0 THEN lo ELSE v1

ClampRaises(params, minpars, maxpars, limitedmin, limitedmax) ==
  \E i \in 1..Len(params) :
    \/ i > Len(maxpars)
    \/ params[i] > maxpars[i] /\ i > Len(limitedmax)
    \/ i > Len(minpars)
    \/ LET v1 == IF params[i] > maxpars[i] /\ limitedmax[i] # 0
                 THEN maxpars[i] ELSE params[i]
       IN  v1 < minpars[i] /\ i > Len(limitedmin)

Clamp(params, minpars, maxpars, limitedmin, limitedmax) ==
  [i \in 1..Len(params) |->
     ClampOne(params[i], minpars[i], maxpars[i], limitedmin[i], limitedmax[i])]

\* params[usemoment] = moment[usemoment]
UseMoments(params, usemoment, moment) ==
  [i \in 1..Len(params) |-> IF usemoment[i] # 0 THEN moment[i] ELSE params[i]]

\* The solver (mpfit) is not part of the package: its result is an input of
\* a call.  It returns one value per parinfo entry; here the entry named
\* ROTATION comes back as s.ang, a mode amplitude as s.amp and every other
\* entry as its initial value.
\* f"MODEAMP {modenum[i]}"
ModeName(p, l) == "MODEAMP (" \o ToString(p) \o ", " \o ToString(l) \o ")"

ModeNames == {ModeName(p, l) : p \in 0..MaxP, l \in 0..MaxL}

mpfit(parinfo, s) ==
  [params |-> [i \in 1..Len(parinfo) |->
                 IF parinfo[i].parname = "ROTATION" THEN s.ang
                 ELSE IF parinfo[i].parname \in ModeNames THEN s.amp
                 ELSE parinfo[i].value],
   perror |-> [i \in 1..Len(parinfo) |-> IF parinfo[i].fixed # 0 THEN 0 ELSE 1],
   status |-> s.status, errmsg |-> s.errmsg, fnorm |-> s.fnorm, dof |-> s.dof,
   npfloat |-> s.npfloat]

\* The (status, error message) pairs of a solver result.
SolverStatuses == {-16, 0, 1}

SolverMessages == {"", "ERROR: parameter or function value(s) have become infinite"}

\* mp.fnorm/mp.dof inside try/except ZeroDivisionError. A Python float
\* divided by zero raises and the handler stores nan; a numpy float does not
\* raise: it gives nan for 0/0 and inf otherwise. A defined quotient is kept
\* as its numerator and denominator.
Chi2n(fnorm, dof, npfloat) ==
  [kind |-> IF dof # 0 THEN "ratio"
            ELSE IF npfloat /\ fnorm # 0 THEN "inf"
            ELSE "nan",
   num |-> fnorm, den |-> dof]

\* mp.chi2 = mp.fnorm and mp.chi2n.
WithChi2(mp) ==
  mp @@ [chi2 |-> mp.fnorm, chi2n |-> Chi2n(mp.fnorm, mp.dof, mp.npfloat)]

\* mp.params[-1] %= 180.0
WrapLast(mp) == [mp EXCEPT !.params[Len(mp.params)] = PyMod(@, 180)]

\* returnmp / return_error / returnfitimage select what is handed back.
Returns(a, mp) ==
  [kind |-> "return",
   form |-> IF a.returnmp THEN "mp" ELSE IF a.return_error THEN "params,perror" ELSE "params",
   fitimage |-> a.returnfitimage,
   mp |-> mp]

\* F(v), with v worked out once.
Once(F(_), v) == CHOOSE r \in {F(x) : x \in {v}} : TRUE

\* Some list is too short for the entries parinfo takes from it.
ShortLists(ls, need) ==
  \E l \in {ls.params, ls.minpars, ls.maxpars, ls.limitedmin, ls.limitedmax,
            ls.fixed} : Len(l) < need

\* The default object `fixed` after a run that had ls.fixed in hand.
Written(d, field, a, ls) ==
  IF a.fixed.given THEN d ELSE [d EXCEPT ![field] = ls.fixed]

\* ---------------------------------------------------------------- peakfit
\* Lines 601-619: the initial vector (moments, height injection, clamping)
\* and the lists the metadata is read from.
peakfit_lists(a, d) ==
  LET fixed0     == Arg(a.fixed, d.peakfit_fixed)
      limitedmin == Arg(a.limitedmin, peakfit_defaults.limitedmin)
      limitedmax == Arg(a.limitedmax, peakfit_defaults.limitedmax)
      minpars    == Arg(a.minpars, peakfit_defaults.minpars)
      maxpars    == Arg(a.maxpars, peakfit_defaults.maxpars)
      usemoms    == (\E i \in DOMAIN a.usemoment : a.usemoment[i] # 0)
                    /\ Len(a.params) = Len(a.usemoment)
      params1    == IF usemoms THEN UseMoments(a.params, a.usemoment, a.moms)
                    ELSE IF Len(a.params) = 0 THEN a.moms ELSE a.params
      params2    == IF a.vheight THEN params1 ELSE <<0>> \o params1
      fixed      == IF a.vheight THEN fixed0 ELSE [fixed0 EXCEPT ![1] = 1]
      Lists(raise, p, fx) ==
        [raise |-> raise, params |-> p, fixed |-> fx, limitedmin |-> limitedmin,
         limitedmax |-> limitedmax, minpars |-> minpars, maxpars |-> maxpars,
         unclamped |-> params2]
  IN  IF usemoms /\ Len(a.moms) # Len(a.usemoment)
      THEN Lists(TRUE, <<>>, fixed0)
      ELSE IF ~a.vheight /\ Len(fixed0) = 0
      THEN Lists(TRUE, <<>>, fixed0)
      ELSE IF ClampRaises(params2, minpars, maxpars, limitedmin, limitedmax)
      THEN Lists(TRUE, <<>>, fixed)
      ELSE Lists(FALSE,
                 Clamp(params2, minpars, maxpars, limitedmin, limitedmax), fixed)

\* Lines 631-654.
peakfit_parinfo(a, ls) ==
  LET E(n, name) == ParEntry(n, n, ls.params, ls.minpars, ls.maxpars,
                             ls.limitedmin, ls.limitedmax, ls.fixed, name)
  IN  <<E(0, "HEIGHT"), E(1, "AMPLITUDE"), E(2, "XSHIFT"), E(3, "YSHIFT"),
        E(4, "XWIDTH")>>
      \o (IF a.circle THEN <<>> ELSE <<E(5, "YWIDTH")>>)
      \o (IF ~a.circle /\ a.rotate THEN <<E(6, "ROTATION")>> ELSE <<>>)

\* Lines 679-688: `returns`, a Python value: the solver object, the pair
\* (params, perror) or params, paired with the image when one is asked for.
\* The image is kept as the decoded model it is sampled from.
Shaped(a, mp, image) ==
  LET returns == IF a.returnmp THEN mp
                 ELSE IF a.return_error THEN <<mp.params, mp.perror>>
                 ELSE mp.params
  IN  IF a.returnfitimage THEN <<returns, image[1]>> ELSE returns

\* peakfit_returns done wrongly: the image is made before the angle wrap.
peakfit_returns_early_image(a, fitted) ==
  Once(LAMBDA mp :
         Once(LAMBDA image :
                Returns(a, WithChi2(mp))
                  @@ [image |-> image, value |-> Shaped(a, WithChi2(mp), image)],
              IF a.returnfitimage
              THEN <<twodpeak(fitted.params, a.circle, a.rotate, TRUE)>>
              ELSE <<>>),
       IF ~a.circle /\ a.rotate THEN WrapLast(fitted) ELSE fitted)

\* Lines 670-688: angle wrap, chi2, and what is handed back.
peakfit_returns(a, fitted) ==
  Once(LAMBDA mp :
         Once(LAMBDA image :
                Returns(a, WithChi2(mp))
                  @@ [image |-> image, value |-> Shaped(a, WithChi2(mp), image)],
              IF a.returnfitimage
              THEN <<twodpeak(mp.params, a.circle, a.rotate, TRUE)>>
              ELSE <<>>),
       IF ~a.circle /\ a.rotate THEN WrapLast(fitted) ELSE fitted)

\* Lines 656-668: the solver call and the test of its message.
peakfit_fit(a, parinfo) ==
  IF ~a.autoderiv THEN Raise("NotImplementedError")
  ELSE IF a.solver.evaluates /\ a.peakfunc.arity # 4 THEN Raise("TypeError")
  ELSE Once(LAMBDA mp : IF mp.errmsg # "" THEN SolverError(mp.errmsg)
                        ELSE peakfit_returns(a, mp),
            mpfit(parinfo, a.solver))

peakfit(a, d) ==
  Once(LAMBDA ls :
         IF ls.raise \/ ShortLists(ls, IF a.circle THEN 5 ELSE IF a.rotate THEN 7 ELSE 6)
         THEN Ran(<<>>, 0, Raise("IndexError"), Written(d, "peakfit_fixed", a, ls))
         ELSE Once(LAMBDA parinfo :
                     Ran(parinfo, 0, peakfit_fit(a, parinfo),
                         Written(d, "peakfit_fixed", a, ls)),
                   peakfit_parinfo(a, ls)),
       peakfit_lists(a, d))

\* -------------------------------------------------- mm_laguerregauss2d_fit
\* modenum = list(itertools.product(range(max_p+1), range(max_l+1)))
modenum(i, max_l) == <<i \div (max_l + 1), i % (max_l + 1)>>

\* moms.pop(1) / moms.pop(0): the list without its amplitude
PopAt(s, k) == SubSeq(s, 1, k - 1) \o SubSeq(s, k + 1, Len(s))

\* int(x) of a number given doubled: numpy stores a float into an integer
\* array by cutting its fraction off, towards zero
Trunc2(x2) == IF x2 >= 0 THEN x2 \div 2 ELSE -((-x2) \div 2)

\* half of a doubled number, as it is written into a metadata record
Half(x2) == IF x2 % 2 = 0 THEN x2 \div 2 ELSE [num |-> x2, den |-> 2]

\* Lines 462-464: amps is an integer array (np.repeat(0, amplen)), so a
\* limit assigned to an entry is cut to an integer.  minamp and maxamp may
\* be half-integers and are given doubled.
ClampInt(v, lo2, hi2, limlo, limhi) ==
  LET v1 == IF 2 * v > hi2 /\ limhi # 0 THEN Trunc2(hi2) ELSE v
  IN  IF 2 * v1 < lo2 /\ limlo # 0 THEN Trunc2(lo2) ELSE v1

\* Lines 425-466: as in peakfit, with the mode amplitudes (all 0, or the
\* moments' amplitude for mode (0,0)) clamped and appended to the vector.
mm_lists(a, d) ==
  LET fixed0     == Arg(a.fixed, d.mm_fixed)
      limitedmin == Arg(a.limitedmin, mm_defaults.limitedmin)
      limitedmax == Arg(a.limitedmax, mm_defaults.limitedmax)
      minpars    == Arg(a.minpars, mm_defaults.minpars)
      maxpars    == Arg(a.maxpars, mm_defaults.maxpars)
      amplen     == (a.max_p + 1) * (a.max_l + 1)
      usemoms    == (\E i \in DOMAIN a.usemoment : a.usemoment[i] # 0)
                    /\ Len(a.params) = Len(a.usemoment)
      frommoms   == usemoms \/ Len(a.params) = 0
      ampat      == IF a.vheight THEN 2 ELSE 1
      moment     == PopAt(a.moms, ampat)
      amps0      == [i \in 1..amplen |->
                       IF i = 1 /\ frommoms THEN a.moms[ampat] ELSE 0]
      params1    == IF usemoms THEN UseMoments(a.params, a.usemoment, moment)
                    ELSE IF Len(a.params) = 0 THEN moment ELSE a.params
      params2    == IF a.vheight THEN params1 ELSE <<0>> \o params1
      fixed      == IF a.vheight THEN fixed0 ELSE [fixed0 EXCEPT ![1] = 1]
      amps       == [i \in 1..amplen |->
                       ClampInt(amps0[i], a.minamp2, a.maxamp2,
                                a.limitedampmin, a.limitedampmax)]
      Lists(raise, p, fx) ==
        [raise |-> raise, params |-> p, fixed |-> fx, limitedmin |-> limitedmin,
         limitedmax |-> limitedmax, minpars |-> minpars, maxpars |-> maxpars,
         unclamped |-> params2 \o amps0]
  IN  IF frommoms /\ Len(a.moms) < ampat
      THEN Lists(TRUE, <<>>, fixed0)
      ELSE IF usemoms /\ Len(moment) # Len(a.usemoment)
      THEN Lists(TRUE, <<>>, fixed0)
      ELSE IF ~a.vheight /\ Len(fixed0) = 0
      THEN Lists(TRUE, <<>>, fixed0)
      ELSE IF ClampRaises(params2, minpars, maxpars, limitedmin, limitedmax)
      THEN Lists(TRUE, <<>>, fixed)
      ELSE Lists(FALSE,
                 Clamp(params2, minpars, maxpars, limitedmin, limitedmax) \o amps,
                 fixed)

\* The number of shape entries of parinfo: n = parinfo[-1]['n'] + 1.
mm_n(a) == IF a.circle THEN 4 ELSE IF a.rotate THEN 6 ELSE 5

\* Lines 478-504; every mode amplitude takes its value from params[n+1].
mm_parinfo(a, ls) ==
  LET E(n, name) == ParEntry(n, n, ls.params, ls.minpars, ls.maxpars,
                             ls.limitedmin, ls.limitedmax, ls.fixed, name)
      n          == mm_n(a)
  IN  <<E(0, "HEIGHT"), E(1, "XSHIFT"), E(2, "YSHIFT"), E(3, "XWIDTH")>>
      \o (IF a.circle THEN <<>> ELSE <<E(4, "YWIDTH")>>)
      \o (IF ~a.circle /\ a.rotate THEN <<E(5, "ROTATION")>> ELSE <<>>)
      \o [i \in 1..((a.max_p + 1) * (a.max_l + 1)) |->
            [n |-> n + i - 1, value |-> ls.params[n + 2],
             limits |-> <<Half(a.minamp2), Half(a.maxamp2)>>,
             limited |-> <<a.limitedampmin, a.limitedampmax>>,
             fixed |-> 0,
             parname |-> ModeName(modenum(i - 1, a.max_l)[1],
                                  modenum(i - 1, a.max_l)[2]),
             error |-> 0]]

\* Lines 516-534.
mm_returns(a, fitted) ==
  Once(LAMBDA mp :
         Once(LAMBDA image :
                Returns(a, WithChi2(mp))
                  @@ [image |-> image, value |-> Shaped(a, WithChi2(mp), image)],
              IF a.returnfitimage
              THEN <<mm_laguerregauss_2d(mp.params, a.max_p, a.max_l,
                                         a.circle, a.rotate, TRUE)>>
              ELSE <<>>),
       IF ~a.circle /\ a.rotate THEN WrapLast(fitted) ELSE fitted)

\* Lines 506-514.
mm_fit(a, parinfo) ==
  IF ~a.autoderiv THEN Raise("NotImplementedError")
  ELSE Once(LAMBDA mp : IF mp.errmsg # "" THEN SolverError(mp.errmsg)
                        ELSE mm_returns(a, mp),
            mpfit(parinfo, a.solver))

mm_laguerregauss2d_fit(a, d) ==
  Once(LAMBDA ls :
         IF ls.raise \/ ShortLists(ls, mm_n(a)) \/ Len(ls.params) < mm_n(a) + 2
         THEN Ran(<<>>, 0, Raise("IndexError"), Written(d, "mm_fixed", a, ls))
         ELSE Once(LAMBDA parinfo :
                     Ran(parinfo, 0, mm_fit(a, parinfo),
                         Written(d, "mm_fixed", a, ls)),
                   mm_parinfo(a, ls)),
       mm_lists(a, d))

\* ------------------------------------------------------------ onedpeakfit
\* Lines 800-808.
onedpeakfit_lists(a, d) ==
  LET params0 == Arg(a.params, onedpeakfit_defaults.params)
      fixed0  == Arg(a.fixed, d.onedpeakfit_fixed)
      Lists(raise, p, fx) ==
        [raise |-> raise, params |-> p, fixed |-> fx,
         limitedmin |-> Arg(a.limitedmin, onedpeakfit_defaults.limitedmin),
         limitedmax |-> Arg(a.limitedmax, onedpeakfit_defaults.limitedmax),
         minpars |-> Arg(a.minpars, onedpeakfit_defaults.minpars),
         maxpars |-> Arg(a.maxpars, onedpeakfit_defaults.maxpars)]
  IN  IF ~a.vheight /\ (Len(params0) = 0 \/ Len(fixed0) = 0)
      THEN Lists(TRUE, <<>>, fixed0)
      ELSE Lists(FALSE,
                 IF ~a.usemoments THEN params0
                 ELSE IF a.vheight THEN a.moms
                 ELSE <<params0[1]>> \o a.moms,
                 IF a.vheight THEN fixed0 ELSE [fixed0 EXCEPT ![1] = 1])

\* Lines 810-821.
onedpeakfit_parinfo(ls) ==
  LET E(n, name) == ParEntry(n, n, ls.params, ls.minpars, ls.maxpars,
                             ls.limitedmin, ls.limitedmax, ls.fixed, name)
  IN  <<E(0, "HEIGHT"), E(1, "AMPLITUDE"), E(2, "SHIFT"), E(3, "WIDTH")>>

\* Lines 790-795 and 823-838.  The residual function calls
\* onedpeak(x, *p, peakfunc), whose signature is
\* onedpeak(peakfunc, x, H, A, dx, w): an evaluation calls the x array as a
\* function and raises TypeError.
onedpeakfit_fit(a, parinfo) ==
  IF a.solver.evaluates THEN Raise("TypeError")
  ELSE Once(LAMBDA mp : IF mp.status = 0 THEN SolverError(mp.errmsg)
                        ELSE [kind |-> "return", form |-> "mpp,model,mpperr,chi2",
                              mp |-> mp @@ [chi2 |-> mp.fnorm]],
            mpfit(parinfo, a.solver))

onedpeakfit(a, d) ==
  Once(LAMBDA ls :
         IF ls.raise \/ ShortLists(ls, 4)
         THEN Ran(<<>>, 0, Raise("IndexError"),
                  Written(d, "onedpeakfit_fixed", a, ls))
         ELSE Once(LAMBDA parinfo :
                     Ran(parinfo, 0, onedpeakfit_fit(a, parinfo),
                         Written(d, "onedpeakfit_fixed", a, ls)),
                   onedpeakfit_parinfo(ls)),
       onedpeakfit_lists(a, d))

\* ----------------------------------------------------------- multipeakfit
ListNames == <<"params", "fixed", "limitedmin", "limitedmax", "minpars", "maxpars">>

\* One round of the normalisation loop: parlist is the object L[name].
\* `==` between lists compares their values.
NormOne(L, name, npeak) ==
  LET parlist == L[name]
  IN  IF Len(parlist) = 3 * npeak THEN L
      ELSE IF Len(parlist) = 3
      THEN [L EXCEPT ![name] = Repeat(parlist, npeak)]
      ELSE IF parlist = L.params
      THEN [L EXCEPT ![name] = Repeat(<<1, 0, 1>>, npeak)]
      ELSE IF parlist = L.fixed \/ parlist = L.limitedmax
      THEN [L EXCEPT ![name] = Repeat(<<0, 0, 0>>, npeak)]
      ELSE IF parlist = L.limitedmin
      THEN [L EXCEPT ![name] = Repeat(<<0, 0, 1>>, npeak)]
      ELSE IF parlist = L.minpars \/ parlist = L.maxpars
      THEN [L EXCEPT ![name] = Repeat(<<0, 0, 0>>, npeak)]
      ELSE L

\* for parlist in (params, fixed, limitedmin, limitedmax, minpars, maxpars)
RECURSIVE NormFrom(_, _, _)
NormFrom(L, k, npeak) ==
  IF k > Len(ListNames) THEN L
  ELSE Once(LAMBDA M : NormFrom(M, k + 1, npeak), NormOne(L, ListNames[k], npeak))

\* parnames[ii % 3] + str(ii % 3)
parnames(ii) ==
  (CASE ii % 3 = 0 -> "AMPLITUDE" [] ii % 3 = 1 -> "SHIFT" [] OTHER -> "WIDTH")
  \o ToString(ii % 3)

\* Lines 921-922: the effective peak count.
multipeakfit_npeak(params, npeak) ==
  IF Len(params) # npeak /\ (Len(params) \div 3) > npeak
  THEN Len(params) \div 3 ELSE npeak

\* The objects the six arguments name.
multipeakfit_objects(a, d) ==
  [params     |-> Arg(a.params, d.multipeakfit_params),
   fixed      |-> Arg(a.fixed, d.multipeakfit_fixed),
   limitedmin |-> Arg(a.limitedmin, d.multipeakfit_limitedmin),
   limitedmax |-> Arg(a.limitedmax, d.multipeakfit_limitedmax),
   minpars    |-> Arg(a.minpars, d.multipeakfit_minpars),
   maxpars    |-> Arg(a.maxpars, d.multipeakfit_maxpars)]

\* The default objects after the loop wrote to the lists L.
multipeakfit_written(a, d, L) ==
  [d EXCEPT
     !.multipeakfit_params     = IF a.params.given THEN @ ELSE L.params,
     !.multipeakfit_fixed      = IF a.fixed.given THEN @ ELSE L.fixed,
     !.multipeakfit_limitedmin = IF a.limitedmin.given THEN @ ELSE L.limitedmin,
     !.multipeakfit_limitedmax = IF a.limitedmax.given THEN @ ELSE L.limitedmax,
     !.multipeakfit_minpars    = IF a.minpars.given THEN @ ELSE L.minpars,
     !.multipeakfit_maxpars    = IF a.maxpars.given THEN @ ELSE L.maxpars]

\* Lines 955-959.
multipeakfit_parinfo(L) ==
  [k \in 1..Len(L.params) |->
     [n |-> k - 1, value |-> L.params[k],
      limits |-> <<L.minpars[k], L.maxpars[k]>>,
      limited |-> <<L.limitedmin[k], L.limitedmax[k]>>,
      fixed |-> L.fixed[k], parname |-> parnames(k - 1), error |-> k - 1]]

\* Lines 943-948 and 965-980: the solver call and the test of its status.
multipeakfit_fit(a, parinfo) ==
  IF a.solver.evaluates /\ a.peakfunc.arity # 2 THEN Raise("TypeError")
  ELSE Once(LAMBDA mp : IF mp.status = 0 THEN SolverError(mp.errmsg)
                        ELSE [kind |-> "return", form |-> "mpp,model,mpperr,chi2",
                              mp |-> mp @@ [chi2 |-> mp.fnorm]],
            mpfit(parinfo, a.solver))

multipeakfit_run(a, d, L0, npeak) ==
  Once(LAMBDA L :
         IF \E nm \in Range(ListNames) : Len(L[nm]) < Len(L.params)
         THEN Ran(<<>>, npeak, Raise("IndexError"), multipeakfit_written(a, d, L))
         ELSE Once(LAMBDA parinfo :
                     Ran(parinfo, npeak, multipeakfit_fit(a, parinfo),
                         multipeakfit_written(a, d, L)),
                   multipeakfit_parinfo(L)),
       NormFrom(L0, 1, npeak))

multipeakfit(a, d) ==
  Once(LAMBDA L0 :
         multipeakfit_run(a, d, L0, multipeakfit_npeak(L0.params, a.npeak)),
       multipeakfit_objects(a, d))

\* A call of one driver on the current default objects.
Run(fn, a, d) ==
  CASE fn = "peakfit" -> peakfit(a, d)
    [] fn = "mm_laguerregauss2d_fit" -> mm_laguerregauss2d_fit(a, d)
    [] fn = "onedpeakfit" -> onedpeakfit(a, d)
    [] fn = "multipeakfit" -> multipeakfit(a, d)

\* What is kept of a call: its arguments, the metadata and the outcome.
Done(fn, a, r) ==
  [phase |-> "done", fn |-> fn, args |-> a,
   parinfo |-> r.parinfo, npeak |-> r.npeak, out |-> r.out]

\* ---------------------------------------------------------------- inputs
\* A solver result of a fit that went well.
GoodFit ==
  [status |-> 1, errmsg |-> "", ang |-> 30, amp |-> 1, fnorm |-> 4, dof |-> 2, npfloat |-> FALSE,
   evaluates |-> TRUE]

FitAngles == {-30, 0, 30, 180, 200}

SolverResults ==
  {[GoodFit EXCEPT !.status = st, !.errmsg = m, !.ang = g, !.evaluates = e] :
     st \in SolverStatuses, m \in SolverMessages, g \in FitAngles, e \in BOOLEAN}
  \cup {[GoodFit EXCEPT !.amp = 190, !.ang = g] : g \in FitAngles}
  \cup {[GoodFit EXCEPT !.fnorm = f, !.dof = n, !.npfloat = np] :
          f \in {0, 4}, n \in {0, 2}, np \in BOOLEAN}

\* What the 2D moment estimator returns for a flag set:
\* (height), amplitude, x, y, width_x, (width_y, (rotation 0)).
moments(circle, rotate, vheight) ==
  (IF vheight THEN <<1>> ELSE <<>>) \o <<5, 1, 1>>
  \o (IF circle THEN <<2>> ELSE <<2, 3>> \o (IF rotate THEN <<0>> ELSE <<>>))

\* What onedmoments returns: (height), amplitude, xcen, width_x.
onedmoments(vheight) == (IF vheight THEN <<1>> ELSE <<>>) \o <<5, 1, 2>>

\* peakfit(peakfunc, data, circle=, rotate=, vheight=), all else omitted.
PeakfitArgs(circle, rotate, vheight) ==
  [peakfunc |-> [arity |-> 4], params |-> <<>>, usemoment |-> <<>>,
   moms |-> moments(circle, rotate, vheight),
   autoderiv |-> TRUE, return_error |-> FALSE, circle |-> circle,
   fixed |-> None, limitedmin |-> None, limitedmax |-> None,
   minpars |-> None, maxpars |-> None, rotate |-> rotate, vheight |-> vheight,
   returnmp |-> FALSE, returnfitimage |-> FALSE, solver |-> GoodFit]

\* mm_laguerregauss2d_fit(data, max_p=, max_l=, circle=, rotate=, vheight=)
MmArgs(max_p, max_l, circle, rotate, vheight) ==
  [max_p |-> max_p, max_l |-> max_l, params |-> <<>>, usemoment |-> <<>>,
   moms |-> moments(circle, rotate, vheight),
   minamp2 |-> 2 * mm_defaults.minamp, maxamp2 |-> 2 * mm_defaults.maxamp,
   limitedampmin |-> mm_defaults.limitedampmin,
   limitedampmax |-> mm_defaults.limitedampmax,
   autoderiv |-> TRUE, return_error |-> FALSE, circle |-> circle,
   fixed |-> None, limitedmin |-> None, limitedmax |-> None,
   minpars |-> None, maxpars |-> None, rotate |-> rotate, vheight |-> vheight,
   returnmp |-> FALSE, returnfitimage |-> FALSE, solver |-> GoodFit]

\* onedpeakfit(peakfunc, xax, data, vheight=, usemoments=)
OnedArgs(vheight, usemoments) ==
  [params |-> None, fixed |-> None, limitedmin |-> None, limitedmax |-> None,
   minpars |-> None, maxpars |-> None, vheight |-> vheight,
   usemoments |-> usemoments, moms |-> onedmoments(vheight), solver |-> GoodFit]

\* multipeakfit(peakfunc, xax, data, npeak=)
MultiArgs(npeak) ==
  [peakfunc |-> [arity |-> 2], npeak |-> npeak, params |-> None, fixed |-> None,
   limitedmin |-> None, limitedmax |-> None, minpars |-> None,
   maxpars |-> None, solver |-> GoodFit]

\* An explicit initial vector for a flag set, with an angle above maxpars.
ExplicitParams(circle, rotate, vheight) ==
  (IF vheight THEN <<2>> ELSE <<>>) \o <<6, 1, 0>>
  \o (IF circle THEN <<-1>> ELSE <<-1, 4>> \o (IF rotate THEN <<200>> ELSE <<>>))

ConstList(c, n) == [k \in 1..n |-> c]

\* Lengths of the lists handed to multipeakfit.
ListLens == {0, 2} \cup {3 * k : k \in 1..MaxPeak}

\* ------------------------------------------------- sequences of calls
SeqPeakfitArgs ==
  {[PeakfitArgs(c, r, v) EXCEPT !.fixed = f] :
     c \in BOOLEAN, r \in BOOLEAN, v \in BOOLEAN,
     f \in {None, Some(ConstList(0, 7))}}

SeqMmArgs ==
  {[MmArgs(1, 0, c, r, v) EXCEPT !.fixed = f] :
     c \in BOOLEAN, r \in BOOLEAN, v \in BOOLEAN,
     f \in {None, Some(ConstList(0, 6))}}

SeqOnedArgs ==
  {[OnedArgs(v, u) EXCEPT !.fixed = f] :
     v \in BOOLEAN, u \in BOOLEAN, f \in {None, Some(ConstList(0, 4))}}

SeqMultiArgs ==
  {[MultiArgs(n) EXCEPT !.params = p, !.limitedmin = l] :
     n \in 1..MaxPeak, p \in {None, Some(<<2, 0, 1>>)},
     l \in {None, Some(<<0, 0, 1>>)}}

\* A call of each driver, with arguments from A, on the current default
\* objects.
PeakFit(A) ==
  \E a \in A : \E r \in {peakfit(a, defaults)} :
    /\ call' = Done("peakfit", a, r)
    /\ defaults' = r.defaults
    /\ UNCHANGED <<dec, res, cb>>

MmFit(A) ==
  \E a \in A : \E r \in {mm_laguerregauss2d_fit(a, defaults)} :
    /\ call' = Done("mm_laguerregauss2d_fit", a, r)
    /\ defaults' = r.defaults
    /\ UNCHANGED <<dec, res, cb>>

OnedPeakFit(A) ==
  \E a \in A : \E r \in {onedpeakfit(a, defaults)} :
    /\ call' = Done("onedpeakfit", a, r)
    /\ defaults' = r.defaults
    /\ UNCHANGED <<dec, res, cb>>

MultiPeakFit(A) ==
  \E a \in A : \E r \in {multipeakfit(a, defaults)} :
    /\ call' = Done("multipeakfit", a, r)
    /\ defaults' = r.defaults
    /\ UNCHANGED <<dec, res, cb>>

Init ==
  /\ defaults = FreshDefaults /\ call = Idle
  /\ dec = Idle /\ res = Idle /\ cb = Idle

Next ==
  \/ PeakFit(SeqPeakfitArgs)
  \/ MmFit(SeqMmArgs)
  \/ OnedPeakFit(SeqOnedArgs)
  \/ MultiPeakFit(SeqMultiArgs)

Spec == Init /\ [][Next]_vars

\* C1: the metadata a call hands to the solver, and its peak count, are those
\* the same call produces on the default objects as the def statements made
\* them: nothing of an earlier call shows in them.
C1_CallsIndependent ==
  call.phase = "done" =>
    \A fresh \in {Run(call.fn, call.args, FreshDefaults)} :
      call.parinfo = fresh.parinfo /\ call.npeak = fresh.npeak

\* ----------------------------------------------------- one call, any input
Flags3 == BOOLEAN \X BOOLEAN \X BOOLEAN

CallPeakfitArgs ==
  {[PeakfitArgs(f[1], f[2], f[3]) EXCEPT !.solver = s] :
     f \in Flags3, s \in SolverResults}
  \cup
  {[PeakfitArgs(f[1], f[2], f[3]) EXCEPT
      !.returnmp = o[1], !.return_error = o[2], !.returnfitimage = o[3],
      !.autoderiv = ad, !.peakfunc = pf, !.solver = s] :
     f \in Flags3, o \in Flags3, ad \in BOOLEAN, pf \in PeakFuncs,
     s \in {GoodFit, [GoodFit EXCEPT !.ang = 200, !.amp = 190]}}
  \cup
  {[PeakfitArgs(f[1], f[2], f[3]) EXCEPT
      !.params = ExplicitParams(f[1], f[2], f[3]),
      !.usemoment = IF u THEN [k \in 1..Len(ExplicitParams(f[1], f[2], f[3])) |->
                                 IF k = 1 THEN 1 ELSE 0]
                    ELSE <<>>,
      !.fixed = fx, !.maxpars = mx, !.autoderiv = ad] :
     f \in Flags3, u \in BOOLEAN, ad \in BOOLEAN,
     fx \in {None, Some(<<0, 1, 0, 0, 0, 0, 0>>), Some(<<>>)},
     mx \in {None, Some(<<3, 3, 3, 3, 3, 3>>)}}
  \cup
  {[PeakfitArgs(f[1], f[2], f[3]) EXCEPT
      !.minpars = mn, !.maxpars = mx, !.limitedmin = lmn, !.limitedmax = lmx] :
     f \in Flags3,
     mn \in {None, Some(ConstList(1, 7)), Some(ConstList(4, 7)), Some(ConstList(-2, 7))},
     mx \in {None, Some(ConstList(3, 7)), Some(ConstList(-1, 7))},
     lmn \in {None, Some(ConstList(1, 7))},
     lmx \in {None, Some(ConstList(1, 7))}}

CallMmArgs ==
  {[MmArgs(p, l, f[1], f[2], f[3]) EXCEPT !.solver = s] :
     p \in 0..MaxP, l \in 0..MaxL, f \in Flags3,
     s \in {r \in SolverResults : r.evaluates}}
  \cup
  {[MmArgs(p, l, f[1], f[2], f[3]) EXCEPT
      !.returnmp = o[1], !.return_error = o[2], !.returnfitimage = o[3],
      !.autoderiv = ad, !.solver = s] :
     p \in 0..MaxP, l \in 0..MaxL, f \in Flags3, o \in Flags3, ad \in BOOLEAN,
     s \in {GoodFit, [GoodFit EXCEPT !.ang = 200, !.amp = 190]}}
  \cup
  {[MmArgs(p, l, f[1], f[2], f[3]) EXCEPT
      !.params = PopAt(ExplicitParams(f[1], f[2], f[3]), IF f[3] THEN 2 ELSE 1),
      !.fixed = fx] :
     p \in 0..MaxP, l \in 0..MaxL, f \in Flags3,
     fx \in {None, Some(<<0, 1, 0, 0, 0, 0>>)}}
  \cup
  {[MmArgs(p, l, f[1], f[2], f[3]) EXCEPT
      !.minamp2 = q[1], !.maxamp2 = q[2], !.limitedampmax = q[3],
      !.minpars = mn, !.limitedmin = lmn] :
     p \in 0..MaxP, l \in 0..MaxL, f \in Flags3,
     q \in {0, 1, 2} \X {3, 4, 12} \X {0, 1},
     mn \in {None, Some(ConstList(1, 6))},
     lmn \in {None, Some(ConstList(1, 6))}}

CallOnedArgs ==
  {[OnedArgs(v, u) EXCEPT !.params = p, !.fixed = fx, !.solver = s] :
     v \in BOOLEAN, u \in BOOLEAN,
     p \in {None, Some(<<3, 4, 5, 6>>), Some(<<>>)},
     fx \in {None, Some(<<0, 1, 0, 0>>)},
     s \in {r \in SolverResults : r.ang = 30}}

CallMultiArgs ==
  {[MultiArgs(n) EXCEPT !.solver = s, !.peakfunc = pf] :
     n \in 1..MaxPeak, pf \in PeakFuncs, s \in {r \in SolverResults : r.ang = 30}}

\* Lists of every length handed to multipeakfit, each argument its own object.
NumLists(c) == {None} \cup {Some(ConstList(c, k)) : k \in ListLens}

FlagLists == {None} \cup {Some(ConstList(c, k)) : c \in {0, 1}, k \in ListLens}

\* The first call of each driver after import.
FirstPeakFit == call.phase = "idle" /\ PeakFit(CallPeakfitArgs)

FirstMmFit == call.phase = "idle" /\ MmFit(CallMmArgs)

FirstOnedPeakFit == call.phase = "idle" /\ OnedPeakFit(CallOnedArgs)

FirstMultiPeakFit ==
  /\ call.phase = "idle"
  /\ \/ MultiPeakFit(CallMultiArgs)
     \/ \E n \in 1..MaxPeak, p \in NumLists(2), lo \in FlagLists, hi \in FlagLists :
          \E fx \in {None, Some(<<0, 1>>), Some(<<0, 1, 0>>)},
             mn \in {None, Some(<<>>), Some(<<-1, -2, 0>>)},
             mx \in {None, Some(<<>>), Some(<<9, 8, 7>>)} :
            MultiPeakFit({[MultiArgs(n) EXCEPT
                             !.params = p, !.fixed = fx, !.limitedmin = lo,
                             !.limitedmax = hi, !.minpars = mn, !.maxpars = mx]})

NextCall == FirstPeakFit \/ FirstMmFit \/ FirstOnedPeakFit \/ FirstMultiPeakFit

SpecCall == Init /\ [][NextCall]_vars

\* The list one field of the metadata was read from.
Column(parinfo, F(_)) == [k \in 1..Len(parinfo) |-> F(parinfo[k])]

\* What normalisation is said to make of a list: unchanged at length 3n, n
\* copies of itself at length 3, n copies of its default triple otherwise.
C3_Expected(orig, triple, n) ==
  IF Len(orig) = 3 * n THEN orig
  ELSE IF Len(orig) = 3 THEN Repeat(orig, n)
  ELSE Repeat(triple, n)

\* C3: in the first multipeakfit call, with n the effective peak count, each
\* of the six lists the metadata is built from has length 3n and is the
\* caller's list unchanged (length 3n), n copies of it (length 3) or n copies
\* of that list's own default triple (any other length), whatever the other
\* lists hold.
C3_ListsNormalised ==
  (call.phase = "done" /\ call.fn = "multipeakfit") =>
    LET a == call.args
        n == call.npeak
        P == call.parinfo
    IN  /\ Len(P) = 3 * n
        /\ Column(P, LAMBDA e : e.value)
             = C3_Expected(Arg(a.params, FreshDefaults.multipeakfit_params), <<1, 0, 1>>, n)
        /\ Column(P, LAMBDA e : e.fixed)
             = C3_Expected(Arg(a.fixed, FreshDefaults.multipeakfit_fixed), <<0, 0, 0>>, n)
        /\ Column(P, LAMBDA e : e.limited[1])
             = C3_Expected(Arg(a.limitedmin, FreshDefaults.multipeakfit_limitedmin),
                           <<0, 0, 1>>, n)
        /\ Column(P, LAMBDA e : e.limited[2])
             = C3_Expected(Arg(a.limitedmax, FreshDefaults.multipeakfit_limitedmax),
                           <<0, 0, 0>>, n)
        /\ Column(P, LAMBDA e : e.limits[1])
             = C3_Expected(Arg(a.minpars, FreshDefaults.multipeakfit_minpars), <<0, 0, 0>>, n)
        /\ Column(P, LAMBDA e : e.limits[2])
             = C3_Expected(Arg(a.maxpars, FreshDefaults.multipeakfit_maxpars), <<0, 0, 0>>, n)

\* The one way the loop departs from C3_Expected: a limitedmin list of a
\* length other than 3 and 3n that holds the same values as the limitedmax
\* list is replaced by n copies of [False, False, False].
LimitedminTakenForLimitedmax ==
  (call.phase = "done" /\ call.fn = "multipeakfit" /\ ~C3_ListsNormalised) =>
    /\ Len(call.args.limitedmin.v) \notin {3, 3 * call.npeak}
    /\ Arg(call.args.limitedmin, FreshDefaults.multipeakfit_limitedmin)
         = Arg(call.args.limitedmax, FreshDefaults.multipeakfit_limitedmax)
    /\ Column(call.parinfo, LAMBDA e : e.limited[1]) = ConstList(0, 3 * call.npeak)

\* C5: when peakfit or mm_laguerregauss2d_fit returns with rotate true and
\* circle false, the rotation entry of the returned vector is the solver's
\* angle modulo 180, in [0, 180).
C5_RotationWrapped ==
  (/\ call.phase = "done"
   /\ call.fn \in {"peakfit", "mm_laguerregauss2d_fit"}
   /\ call.out.kind = "return"
   /\ call.args.rotate /\ ~call.args.circle) =>
    \A i \in DOMAIN call.parinfo :
      call.parinfo[i].parname = "ROTATION" =>
        /\ call.out.mp.params[i] = call.args.solver.ang % 180
        /\ call.out.mp.params[i] \in 0..179

\* What peakfit alone does with the angle.
PeakfitRotationWrapped ==
  (call.phase = "done" /\ call.fn = "peakfit") => C5_RotationWrapped

\* The solver was called and handed its result back to the driver.
SolverReturned ==
  /\ call.phase = "done"
  /\ call.parinfo # <<>>
  /\ call.out.kind = "raise" => call.out.exc \notin {"TypeError", "NotImplementedError"}

\* C10: whatever (status, message) pair the solver hands back, multipeakfit
\* and peakfit raise exactly when the message is non-empty.
C10_RaisesOnMessage ==
  (SolverReturned /\ call.fn \in {"multipeakfit", "peakfit"}) =>
    (call.out.kind = "raise" <=> call.args.solver.errmsg # "")

\* What peakfit alone does with the message.
PeakfitRaisesOnMessage ==
  (SolverReturned /\ call.fn = "peakfit") =>
    (call.out.kind = "raise" <=> call.args.solver.errmsg # "")

\* What multipeakfit tests instead: the status.
MultipeakfitRaisesOnStatus ==
  (SolverReturned /\ call.fn = "multipeakfit") =>
    (call.out.kind = "raise" <=> call.args.solver.status = 0)

\* The field names of the layout the caller's flags select.
LayoutNames(fn, a) ==
  (IF a.vheight THEN <<"HEIGHT">> ELSE <<>>)
  \o (IF fn = "peakfit" THEN <<"AMPLITUDE">> ELSE <<>>)
  \o <<"XSHIFT", "YSHIFT", "XWIDTH">>
  \o (IF a.circle THEN <<>> ELSE <<"YWIDTH">>)
  \o (IF ~a.circle /\ a.rotate THEN <<"ROTATION">> ELSE <<>>)
  \o (IF fn = "peakfit" THEN <<>>
      ELSE [i \in 1..((a.max_p + 1) * (a.max_l + 1)) |->
              ModeName(modenum(i - 1, a.max_l)[1], modenum(i - 1, a.max_l)[2])])

\* A call of one of the two 2D drivers that returned.
Returned2D ==
  /\ call.phase = "done"
  /\ call.fn \in {"peakfit", "mm_laguerregauss2d_fit"}
  /\ call.out.kind = "return"

\* C11: the vector peakfit and mm_laguerregauss2d_fit return has the length
\* and the field order of the layout the caller's circle, rotate and vheight
\* select: with vheight false it has no height entry.
C11_ReturnedLayout ==
  Returned2D =>
    /\ Len(call.out.mp.params) = Len(LayoutNames(call.fn, call.args))
    /\ Column(call.parinfo, LAMBDA e : e.parname) = LayoutNames(call.fn, call.args)

\* What the drivers do return: the layout with vheight taken as true.
ReturnedLayoutHasHeight ==
  Returned2D =>
    Column(call.parinfo, LAMBDA e : e.parname)
      = LayoutNames(call.fn, [call.args EXCEPT !.vheight = TRUE])

\* The model a driver's image is sampled from, decoded from a vector.
ImageOf(fn, a, p) ==
  IF fn = "peakfit" THEN twodpeak(p, a.circle, a.rotate, TRUE)
  ELSE mm_laguerregauss_2d(p, a.max_p, a.max_l, a.circle, a.rotate, TRUE)

\* C12: for each combination of returnmp, return_error and returnfitimage,
\* peakfit and mm_laguerregauss2d_fit hand back the solver object if returnmp,
\* else (parameters, errors) if return_error, else the parameters; with
\* returnfitimage, the pair of that value and the image of the model decoded
\* from the parameters as they are after the angle wrap (for peakfit, with
\* the rotation equal to the solver's angle modulo 180).
C12_ReturnShape ==
  Returned2D =>
    LET a    == call.args
        mp   == call.out.mp
        base == IF a.returnmp THEN mp
                ELSE IF a.return_error THEN <<mp.params, mp.perror>>
                ELSE mp.params
        img  == ImageOf(call.fn, a, mp.params)
    IN  /\ call.out.value = IF a.returnfitimage THEN <<base, img>> ELSE base
        /\ (a.returnfitimage /\ call.fn = "peakfit" /\ a.rotate /\ ~a.circle)
             => img.rota = a.solver.ang % 180

C12_Witness ==
  /\ Returned2D
  /\ call.fn = "peakfit"
  /\ call.args.returnfitimage /\ call.args.return_error /\ ~call.args.returnmp
  /\ call.args.rotate /\ ~call.args.circle
  /\ call.args.solver.ang = 200
  /\ call.out.value[2].rota = 20
  /\ call.out.value[1] = <<call.out.mp.params, call.out.mp.perror>>

\* C13: when the solver reports zero degrees of freedom, a returning call of
\* peakfit or mm_laguerregauss2d_fit has chi2 equal to the solver's final cost
\* and chi2n not-a-number, whatever the final cost.
C13_Chi2nNaN ==
  (Returned2D /\ call.out.mp.dof = 0) =>
    /\ call.out.mp.chi2 = call.args.solver.fnorm
    /\ call.out.mp.chi2n.kind = "nan"

\* What holds instead: the division never ends the call, chi2 is the final
\* cost, and chi2n is not-a-number unless the cost is a non-zero numpy float,
\* when it is infinite.
Chi2nNaNOrInf ==
  /\ (call.phase = "done" /\ call.fn \in {"peakfit", "mm_laguerregauss2d_fit"}
        /\ call.out.kind = "raise")
       => call.out.exc # "ZeroDivisionError"
  /\ (Returned2D /\ call.out.mp.dof = 0) =>
       /\ call.out.mp.chi2 = call.args.solver.fnorm
       /\ call.out.mp.chi2n.kind
            = IF call.args.solver.npfloat /\ call.args.solver.fnorm # 0
              THEN "inf" ELSE "nan"

Done2D == call.phase = "done" /\ call.fn \in {"peakfit", "mm_laguerregauss2d_fit"}

\* C14: a call of peakfit or mm_laguerregauss2d_fit with autoderiv false ends,
\* for every input, with the unimplemented-path error.
C14_AutoderivFalseUnimplemented ==
  (Done2D /\ ~call.args.autoderiv) =>
    call.out.kind = "raise" /\ call.out.exc = "NotImplementedError"

\* What holds instead: with autoderiv false the call never returns (so no
\* solver result is used), and it ends with the unimplemented-path error
\* unless an indexing error in the preparation of the lists ends it first.
AutoderivFalseNeverReturns ==
  (Done2D /\ ~call.args.autoderiv) =>
    /\ call.out.kind = "raise"
    /\ call.out.exc \in {"NotImplementedError", "IndexError"}

(***************************************************************************)
(* Evaluation runs: twodpeak_onedfunc or twodpeak decodes a complete       *)
(* vector and the returned rotpeak is called at the decoded center and     *)
(* over a grid; for a circular model the elliptical, non-rotated model     *)
(* with both widths equal to the circle's is evaluated over the same grid. *)
(***************************************************************************)
EvalAngles == {-90, 0, 90, 180, 270}

EvalVec(c, r, v, h, a, cy, cx, wx, wy, rota) ==
    (IF v THEN <<h>> ELSE <<>>) \o <<a, cy, cx, wx>>
    \o (IF c THEN <<>> ELSE <<wy>> \o (IF r THEN <<rota>> ELSE <<>>))

EvalInputs ==
    { [phase |-> "input", decoder |-> d, circle |-> c, rotate |-> r, vheight |-> v,
       inpars |-> EvalVec(c, r, v, q[1], q[2], q[3], q[4], q[5], q[6], g)] :
      d \in {"twodpeak_onedfunc", "twodpeak"},
      c \in BOOLEAN, r \in BOOLEAN, v \in BOOLEAN,
      q \in {0, 2} \X {1, 3} \X {0, 1} \X {1, 2} \X {1, 2} \X {1, 3},
      g \in EvalAngles }

\* rotpeak(x, y) of the decoder's closure, with a box as the peak shape
rotpeak(d, m, x, y) ==
    IF d = "twodpeak_onedfunc" THEN rotpeak_onedfunc(m, x, y)
    ELSE rotpeak_twod(m, x, y)

\* rotpeak(*np.indices(shape)) on a square grid
OnGrid(d, m) ==
    [c \in Cells(<<MaxPix, MaxPix>>) |-> rotpeak(d, m, c[1], c[2])]

\* the vector of the elliptical layout with both widths equal to the
\* width of a circular vector
EllipseVec(inpars, vheight) ==
    LET k == (IF vheight THEN 1 ELSE 0) + 4
    IN  SubSeq(inpars, 1, k) \o <<inpars[k]>>

InitEval ==
    /\ dec \in EvalInputs
    /\ defaults = Idle /\ call = Idle /\ res = Idle /\ cb = Idle

Evaluate ==
    /\ dec.phase = "input"
    /\ \E m \in {Decode(dec.decoder, dec.inpars, 0, 0,
                        dec.circle, dec.rotate, dec.vheight)} :
         dec' = [dec EXCEPT !.phase = "done"] @@
                [out |-> m,
                 atcenter |-> IF m.kind = "model"
                              THEN <<rotpeak(dec.decoder, m, m.center_x, m.center_y)>>
                              ELSE <<>>,
                 image |-> IF m.kind = "model" THEN OnGrid(dec.decoder, m) ELSE <<>>,
                 ellipse |-> IF dec.circle
                             THEN OnGrid(dec.decoder,
                                         Decode(dec.decoder,
                                                EllipseVec(dec.inpars, dec.vheight),
                                                0, 0, FALSE, FALSE, dec.vheight))
                             ELSE <<>>]
    /\ UNCHANGED <<defaults, call, res, cb>>

NextEval == Evaluate

SpecEval == InitEval /\ [][NextEval]_vars

\* C15: for twodpeak_onedfunc and twodpeak, under every combination of
\* circle, rotate and vheight and every complete vector of that layout with
\* a rotation that is a multiple of 90 degrees, the model with a peak shape
\* equal to 1 at zero offset, evaluated at the decoded center, equals
\* height + amplitude (height 0 without vheight); and a circular model of
\* width w has everywhere the values of the non-rotated elliptical model
\* of widths (w, w).
C15_PeakAtCenter ==
    dec.phase = "done" =>
        LET nh == IF dec.vheight THEN 1 ELSE 0
        IN  /\ dec.out.kind = "model"
            /\ dec.atcenter
                 = <<(IF dec.vheight THEN dec.inpars[1] ELSE 0) + dec.inpars[nh + 1]>>
            /\ dec.circle => dec.image = dec.ellipse

C15_Witness ==
    /\ dec.phase = "done"
    /\ dec.decoder = "twodpeak" /\ dec.rotate /\ ~dec.circle /\ dec.vheight
    /\ dec.out.rota = 90 /\ dec.out.center_x = 2 /\ dec.out.center_y = 1
    /\ dec.out.width_x = 1
    /\ dec.atcenter = <<5>>
    /\ \E c \in DOMAIN dec.image : dec.image[c] # 5

(***************************************************************************)
(* onedmoments.  Data and abscissa are integer sequences on a regular      *)
(* grid.  The median of an even number of samples is a half-integer, so    *)
(* height and amplitude are kept doubled (height2 = 2 * height); a width   *)
(* 0.5 * |peakintegral / amplitude| is kept as numerator and denominator,  *)
(* or as nan (0/0) or inf (x/0), the values numpy's division gives.        *)
(***************************************************************************)
NSamp == 3

\* the k-th smallest entry of a sequence
KthSmallest(s, k) ==
    CHOOSE v \in Range(s) :
        /\ Cardinality({i \in DOMAIN s : s[i] < v}) < k
        /\ Cardinality({i \in DOMAIN s : s[i] <= v}) >= k

\* 2 * median(data)
median2(data) ==
    KthSmallest(data, (Len(data) + 1) \div 2) + KthSmallest(data, (Len(data) + 2) \div 2)

\* np.argmin / np.argmax: the first index of the extreme value
argmin(data) ==
    CHOOSE i \in DOMAIN data :
        /\ \A j \in DOMAIN data : data[i] <= data[j]
        /\ \A j \in 1..(i - 1) : data[j] # data[i]

argmax(data) ==
    CHOOSE i \in DOMAIN data :
        /\ \A j \in DOMAIN data : data[j] <= data[i]
        /\ \A j \in 1..(i - 1) : data[j] # data[i]

\* Xax[data < data.mean()] and Xax[data > data.mean()]
XaxBelowMean(Xax, data) ==
    LET idx == [i \in 1..Len(data) |-> i]
        Below(i) == Len(data) * data[i] < SeqSum(data)
        kept == SelectSeq(idx, Below)
    IN  [k \in 1..Len(kept) |-> Xax[kept[k]]]

XaxAboveMean(Xax, data) ==
    LET idx == [i \in 1..Len(data) |-> i]
        Above(i) == Len(data) * data[i] > SeqSum(data)
        kept == SelectSeq(idx, Above)
    IN  [k \in 1..Len(kept) |-> Xax[kept[k]]]

\* a.std() < b.std(); the std of an empty selection is nan, and a
\* comparison with nan is false
StdLess(a, b) ==
    /\ a # <<>> /\ b # <<>>
    /\ VarN(a) * Len(b) * Len(b) < VarN(b) * Len(a) * Len(a)

\* a.std() <= b.std()
StdLessEq(a, b) ==
    /\ a # <<>> /\ b # <<>>
    /\ VarN(a) * Len(b) * Len(b) <= VarN(b) * Len(a) * Len(a)

\* 0.5 * np.abs(peakintegral / amplitude), from the doubled values
HalfAbsRatio(peakintegral2, amplitude2) ==
    [kind |-> IF amplitude2 # 0 THEN "num"
              ELSE IF peakintegral2 = 0 THEN "nan" ELSE "inf",
     num |-> Abs(peakintegral2), den |-> 2 * Abs(amplitude2)]

\* PositiveBranch done wrongly: the autodetection takes the positive
\* branch on equal standard deviations too
PositiveBranch_on_equal(Xax, data, negamp) ==
    IF negamp = "True" THEN FALSE
    ELSE IF negamp = "None"
    THEN StdLessEq(XaxAboveMean(Xax, data), XaxBelowMean(Xax, data))
    ELSE TRUE

\* if negamp / elif negamp is None: if Hstddev < Lstddev / else
PositiveBranch(Xax, data, negamp) ==
    IF negamp = "True" THEN FALSE
    ELSE IF negamp = "None"
    THEN StdLess(XaxAboveMean(Xax, data), XaxBelowMean(Xax, data))
    ELSE TRUE

\* onedmoments(Xax, data, vheight, estimator=median, negamp): mylist, or
\* the ValueError of a nan width
onedmoments_mylist(Xax, data, vheight, negamp) ==
    LET N   == Len(data)
        dx  == (Xax[N] - Xax[1]) \div (N - 1)
        height2 == median2(data)
        above == SeqSum([i \in 1..N |-> IF 2 * data[i] > height2 THEN data[i] ELSE 0])
        below == SeqSum([i \in 1..N |-> IF 2 * data[i] < height2 THEN data[i] ELSE 0])
        Lpeakintegral2 == dx * (2 * SeqSum(data) - height2 * N - 2 * above)
        Lamplitude2    == 2 * SetMin(Range(data)) - height2
        Hpeakintegral2 == dx * (2 * SeqSum(data) - height2 * N - 2 * below)
        Hamplitude2    == 2 * SetMax(Range(data)) - height2
        pos    == PositiveBranch(Xax, data, negamp)
        xcen   == IF pos THEN Xax[argmax(data)] ELSE Xax[argmin(data)]
        amplitude2 == IF pos THEN Hamplitude2 ELSE Lamplitude2
        width_x == IF pos THEN HalfAbsRatio(Hpeakintegral2, Hamplitude2)
                   ELSE HalfAbsRatio(Lpeakintegral2, Lamplitude2)
    IN  IF width_x.kind = "nan"
        THEN [kind |-> "raise", exc |-> "ValueError", msg |-> "something is nan"]
        ELSE [kind |-> "return",
              mylist |-> (IF vheight THEN <<height2>> ELSE <<>>)
                         \o <<amplitude2, xcen, width_x>>]

NegAmps == {"True", "False", "None"}

Grids == {[i \in 1..NSamp |-> i - 1], [i \in 1..NSamp |-> 10 + 2 * i]}

InitMoments ==
    /\ res \in [phase : {"input"}, Xax : Grids, data : [1..NSamp -> 0..2],
                vheight : BOOLEAN, negamp : NegAmps]
    /\ defaults = Idle /\ call = Idle /\ dec = Idle /\ cb = Idle

OnedMoments ==
    /\ res.phase = "input"
    /\ res' = [res EXCEPT !.phase = "done"] @@
              [out |-> onedmoments_mylist(res.Xax, res.data, res.vheight, res.negamp)]
    /\ UNCHANGED <<defaults, call, dec, cb>>

NextMoments == OnedMoments

SpecMoments == InitMoments /\ [][NextMoments]_vars

\* C16: what onedmoments returns is [height, amplitude, center, width] with
\* vheight and [amplitude, center, width] without; with negamp True the
\* amplitude is min(data) - height and the center the abscissa of the
\* minimum, with negamp False max(data) - height and the abscissa of the
\* maximum, and with negamp None the positive branch exactly when the
\* standard deviation of the abscissae where data is above its mean is
\* strictly smaller than that where data is below its mean.
C16_MomentsBranches ==
    (res.phase = "done" /\ res.out.kind = "return") =>
        LET l    == res.out.mylist
            nh   == IF res.vheight THEN 1 ELSE 0
            h2   == median2(res.data)
            lo   == SetMin(Range(res.data))
            hi   == SetMax(Range(res.data))
            pos  == \/ res.negamp = "False"
                    \/ /\ res.negamp = "None"
                       /\ StdLess(XaxAboveMean(res.Xax, res.data),
                                  XaxBelowMean(res.Xax, res.data))
        IN  /\ Len(l) = nh + 3
            /\ res.vheight => l[1] = h2
            /\ l[nh + 1] = 2 * (IF pos THEN hi ELSE lo) - h2
            /\ l[nh + 2] = res.Xax[IF pos THEN argmax(res.data) ELSE argmin(res.data)]
            /\ l[nh + 3].kind \in {"num", "inf"}

\* autodetection with equal standard deviations on both sides: the
\* negative branch is returned
C16_Witness ==
    /\ res.phase = "done" /\ res.out.kind = "return"
    /\ res.negamp = "None" /\ res.vheight
    /\ res.data = <<0, 1, 2>> /\ res.Xax = <<0, 1, 2>>
    /\ res.out.mylist[2] = -2 /\ res.out.mylist[3] = 0

(***************************************************************************)
(* The test scenario of tests/test_peakfitter.py: an image is synthesized  *)
(* with twodpeak(peakfunc, inpars, shape=...) and handed to peakfit with   *)
(* the same flags and the same peak shape.  The image is kept as the model *)
(* it samples; the moment estimate of the noiseless image is taken to be   *)
(* the true vector, and the solver's answer is an input.                   *)
(***************************************************************************)
\* the test vectors [0, 1, 64, 64, 8, 8] and [0, 1, 64, 64, 4, 12, 30],
\* cut to the layout of the flags
TestVec(circle, rotate, vheight) ==
    (IF vheight THEN <<0>> ELSE <<>>) \o <<1, 64, 64>>
    \o (IF circle THEN <<8>> ELSE <<4, 12>> \o (IF rotate THEN <<30>> ELSE <<>>))

\* twodpeak(peakfunc, inpars, circle, rotate, vheight, shape): rotpeak is
\* called on the grid and calls peakfunc with four arguments
Synthesized(peakfunc, inpars, circle, rotate, vheight) ==
    LET m == twodpeak(inpars, circle, rotate, vheight)
    IN  IF m.kind # "model" THEN m
        ELSE IF peakfunc.arity # 4 THEN [kind |-> "TypeError"]
        ELSE [kind |-> "image", model |-> m]

InitTest ==
    /\ cb \in [phase : {"start"}, peakfunc : PeakFuncs,
               circle : BOOLEAN, rotate : BOOLEAN, vheight : BOOLEAN,
               solver : {[GoodFit EXCEPT !.ang = g, !.evaluates = e] :
                           g \in {0, 30}, e \in BOOLEAN}]
    /\ defaults = Idle /\ call = Idle /\ dec = Idle /\ res = Idle

\* in_data = gf.twodpeak(gaussfunc, inpars, shape=(128, 128), ...)
Synthesize ==
    /\ cb.phase = "start"
    /\ \E d \in {Synthesized(cb.peakfunc, TestVec(cb.circle, cb.rotate, cb.vheight),
                             cb.circle, cb.rotate, cb.vheight)} :
         cb' = [cb EXCEPT !.phase = IF d.kind = "image" THEN "synthesized" ELSE "done"]
               @@ [inpars |-> TestVec(cb.circle, cb.rotate, cb.vheight), in_data |-> d]
    /\ UNCHANGED <<defaults, call, dec, res>>

\* fit = gf.peakfit(gaussfunc, in_data, ...)
TestFit ==
    /\ cb.phase = "synthesized"
    /\ \E r \in {peakfit([PeakfitArgs(cb.circle, cb.rotate, cb.vheight) EXCEPT
                            !.peakfunc = cb.peakfunc, !.moms = cb.inpars,
                            !.solver = cb.solver],
                         FreshDefaults)} :
         cb' = [cb EXCEPT !.phase = "done"] @@ [fit |-> r.out]
    /\ UNCHANGED <<defaults, call, dec, res>>

NextTest == Synthesize \/ TestFit

SpecTest == InitTest /\ [][NextTest]_vars

\* C17: with a peak shape of signature (offset, width), synthesizing the
\* test vector with twodpeak and fitting the image with peakfit under the
\* same flags and shape gives back the test vector.
C17_TestRecoversInput ==
    (cb.phase = "done" /\ cb.peakfunc.arity = 2) =>
        /\ cb.in_data.kind = "image"
        /\ "fit" \in DOMAIN cb
        /\ cb.fit.kind = "return"
        /\ cb.fit.mp.params = cb.inpars

\* What holds instead: with such a shape twodpeak's image is never made,
\* the call ends with TypeError and peakfit is not reached.
OnedShapeNeverSynthesizes ==
    (cb.phase # "start" /\ cb.peakfunc.arity = 2) =>
        /\ cb.phase = "done"
        /\ cb.in_data.kind = "TypeError"
        /\ "fit" \notin DOMAIN cb

DoneMm == call.phase = "done" /\ call.fn = "mm_laguerregauss2d_fit"

\* the mode-amplitude records of a metadata list
ModeRecords(parinfo) ==
  LET IsMode(e) == e.parname \in ModeNames
  IN  SelectSeq(parinfo, IsMode)

\* C18: in mm_laguerregauss2d_fit, for all max_p and max_l, once the vector
\* is assembled exactly (max_p+1)*(max_l+1) mode-amplitude records are
\* appended, and the record of the i-th mode (row-major over (p, l)) has
\* as initial value the entry at position n+i of the assembled vector, the
\* i-th clamped amplitude; the (0,0) record carries the moments' amplitude.
C18_ModeAmpValues ==
  DoneMm =>
    \A ls \in {mm_lists(call.args, FreshDefaults)} :
      ~ls.raise =>
        LET a      == call.args
            amplen == (a.max_p + 1) * (a.max_l + 1)
            n      == mm_n(a)
            modes  == ModeRecords(call.parinfo)
        IN  /\ Len(modes) = amplen
            /\ \A i \in 1..amplen :
                 /\ modes[i].parname = ModeName(modenum(i - 1, a.max_l)[1],
                                                modenum(i - 1, a.max_l)[2])
                 /\ modes[i].value = ls.params[n + i]
            /\ Len(a.params) = 0 =>
                 modes[1].value = a.moms[IF a.vheight THEN 2 ELSE 1]

\* What holds instead: with a single mode no metadata is handed on (the
\* call ends with IndexError); with more modes there are as many records
\* as modes, named in row-major order, and each carries the second
\* amplitude of the assembled vector.
ModeAmpValuesAllSecond ==
  DoneMm =>
    \A ls \in {mm_lists(call.args, FreshDefaults)} :
      ~ls.raise =>
        LET a      == call.args
            amplen == (a.max_p + 1) * (a.max_l + 1)
            n      == mm_n(a)
            modes  == ModeRecords(call.parinfo)
        IN  IF Len(ls.params) < n + 2
            THEN /\ call.parinfo = <<>>
                 /\ call.out.kind = "raise" /\ call.out.exc = "IndexError"
            ELSE /\ Len(modes) = amplen
                 /\ \A i \in 1..amplen :
                      /\ modes[i].parname = ModeName(modenum(i - 1, a.max_l)[1],
                                                     modenum(i - 1, a.max_l)[2])
                      /\ modes[i].value = ls.params[n + 2]

\* The lists of a 2D driver call after the clamping step.
ListsOf(fn, a) ==
  IF fn = "peakfit" THEN peakfit_lists(a, FreshDefaults)
  ELSE mm_lists(a, FreshDefaults)

\* The limits of entry i of the assembled vector, doubled, and whether
\* each is active: those of the caller's lists for a shape entry, minamp
\* and maxamp for a mode amplitude.
LimitsAt(fn, a, ls, i) ==
  IF fn = "peakfit" \/ i <= Len(ls.params) - (a.max_p + 1) * (a.max_l + 1)
  THEN [lo2 |-> 2 * ls.minpars[i], hi2 |-> 2 * ls.maxpars[i],
        limlo |-> ls.limitedmin[i] # 0, limhi |-> ls.limitedmax[i] # 0]
  ELSE [lo2 |-> a.minamp2, hi2 |-> a.maxamp2,
        limlo |-> a.limitedampmin # 0, limhi |-> a.limitedampmax # 0]

\* the postcondition of the clamping step for one entry
ClampedAt(fn, a, ls, i) ==
  \A L \in {LimitsAt(fn, a, ls, i)} :
    /\ L.limhi => 2 * ls.params[i] <= L.hi2
    /\ L.limlo => 2 * ls.params[i] >= L.lo2
    /\ ((L.limhi => 2 * ls.unclamped[i] <= L.hi2)
          /\ (L.limlo => 2 * ls.unclamped[i] >= L.lo2))
         => ls.params[i] = ls.unclamped[i]

\* C19: in peakfit and mm_laguerregauss2d_fit, after the clamping step
\* every initial value whose upper limit is active is at most that limit,
\* every one whose lower limit is active is at least that limit, and a
\* value with no active limit or within its active limits is unchanged.
C19_ClampPostcondition ==
  Done2D =>
    \A ls \in {ListsOf(call.fn, call.args)} :
      ~ls.raise => \A i \in 1..Len(ls.params) : ClampedAt(call.fn, call.args, ls, i)

\* What holds instead: the postcondition holds for every entry whose
\* active lower limit is not above its active upper limit and, for a mode
\* amplitude, whose active lower limit is a whole number.
ClampedWhenLimitsConsistent ==
  Done2D =>
    \A ls \in {ListsOf(call.fn, call.args)} :
      ~ls.raise =>
        \A i \in 1..Len(ls.params) :
          \A L \in {LimitsAt(call.fn, call.args, ls, i)} :
            (/\ (L.limlo /\ L.limhi) => L.lo2 <= L.hi2
             /\ (L.limlo /\ call.fn # "peakfit") => L.lo2 % 2 = 0)
              => ClampedAt(call.fn, call.args, ls, i)

\* A failing state: a mode amplitude of 0 is below minamp = 1/2, the
\* clamp assigns 1/2 to the integer array, and the entry stays 0.
AmplitudeBelowFractionalMinamp ==
  /\ DoneMm
  /\ call.args.minamp2 = 1 /\ call.args.limitedampmin # 0
  /\ \E ls \in {ListsOf(call.fn, call.args)} :
       ~ls.raise /\ ls.params[Len(ls.params)] = 0

\* C20: when peakfit or mm_laguerregauss2d_fit is called with vheight
\* false, the HEIGHT record of the metadata has its fixed flag set and
\* initial value zero, whatever the caller's limits and limit-active flags.
C20_HeightFixedAtZero ==
  (Done2D /\ ~call.args.vheight /\ call.parinfo # <<>>) =>
    /\ call.parinfo[1].parname = "HEIGHT"
    /\ call.parinfo[1].fixed # 0
    /\ call.parinfo[1].value = 0

\* What holds instead: the record is fixed, and its value is the injected
\* zero after clamping into the caller's active limits for entry 0.
HeightFixedAtClampedZero ==
  (Done2D /\ ~call.args.vheight /\ call.parinfo # <<>>) =>
    \A ls \in {ListsOf(call.fn, call.args)} :
      /\ call.parinfo[1].parname = "HEIGHT"
      /\ call.parinfo[1].fixed # 0
      /\ call.parinfo[1].value
           = ClampOne(0, ls.minpars[1], ls.maxpars[1],
                      ls.limitedmin[1], ls.limitedmax[1])
      /\ ((ls.limitedmin[1] # 0 => ls.minpars[1] <= 0)
            /\ (ls.limitedmax[1] # 0 => ls.maxpars[1] >= 0))
           => call.parinfo[1].value = 0

(***************************************************************************)
(* Center shifts of the multimode model: mm_laguerregauss_2d decodes a     *)
(* complete vector and the same vector with its center moved by (dx, dy);  *)
(* both rotpeak closures are called over a grid, the second one also at    *)
(* the grid points moved by (dx, dy).  A value of rotpeak is kept as the   *)
(* term that determines it (rotpeak_mm).                                   *)
(***************************************************************************)
ShiftAngles == {0, 90, 180}

Shifts == {<<1, 0>>, <<0, 1>>, <<1, 2>>}

MmVec(c, r, v, cx, cy, rota, amplen) ==
    (IF v THEN <<2>> ELSE <<>>) \o <<cx, cy>>
    \o (IF c THEN <<2>> ELSE <<2, 3>> \o (IF r THEN <<rota>> ELSE <<>>))
    \o [k \in 1..amplen |-> k]

ShiftInputs ==
    { [phase |-> "input", max_p |-> p, max_l |-> l,
       circle |-> f[1], rotate |-> f[2], vheight |-> f[3], shift |-> d,
       inpars |-> MmVec(f[1], f[2], f[3], 1, 2, g, (p + 1) * (l + 1)),
       moved  |-> MmVec(f[1], f[2], f[3], 1 + d[1], 2 + d[2], g, (p + 1) * (l + 1))] :
      p \in 0..MaxP, l \in 0..MaxL, f \in Flags3, d \in Shifts, g \in ShiftAngles }

\* rotpeak of a decoded multimode model at the grid points moved by d
MmOnGrid(m, d) ==
    [c \in Cells(<<MaxPix, MaxPix>>) |-> rotpeak_mm(m, c[1] + d[1], c[2] + d[2])]

InitShift ==
    /\ dec \in ShiftInputs
    /\ defaults = Idle /\ call = Idle /\ res = Idle /\ cb = Idle

ShiftCenter ==
    /\ dec.phase = "input"
    /\ \E m \in {mm_laguerregauss_2d(dec.inpars, dec.max_p, dec.max_l,
                                     dec.circle, dec.rotate, dec.vheight)} :
       \E m2 \in {mm_laguerregauss_2d(dec.moved, dec.max_p, dec.max_l,
                                      dec.circle, dec.rotate, dec.vheight)} :
         dec' = [dec EXCEPT !.phase = "done"] @@
                [out |-> m, out_moved |-> m2,
                 image |-> MmOnGrid(m, <<0, 0>>),
                 image_moved |-> MmOnGrid(m2, <<0, 0>>),
                 image_moved_at_moved |-> MmOnGrid(m2, dec.shift)]
    /\ UNCHANGED <<defaults, call, res, cb>>

NextShift == ShiftCenter

SpecShift == InitShift /\ [][NextShift]_vars

\* C21: for every flag combination the multimode model evaluates its modes
\* at coordinates offset by the decoded center and divided by the widths:
\* moving the center by (dx, dy) moves the model by the same offset, and
\* the model is not independent of the center.
C21_ModelFollowsCenter ==
    dec.phase = "done" =>
        /\ dec.out.kind = "model" /\ dec.out_moved.kind = "model"
        /\ dec.image_moved_at_moved = dec.image
        /\ dec.image_moved # dec.image

\* What holds instead: with rotation active the model follows its center;
\* without it (rotate false, or circle) the model is the same whatever the
\* center is, and moving the center moves nothing.
ModelFollowsCenterOnlyWhenRotated ==
    dec.phase = "done" =>
        /\ dec.out.kind = "model" /\ dec.out_moved.kind = "model"
        /\ IF dec.rotate /\ ~dec.circle
           THEN /\ dec.image_moved_at_moved = dec.image
                /\ dec.image_moved # dec.image
           ELSE /\ dec.image_moved = dec.image
                /\ dec.image_moved_at_moved # dec.image

\* A finished multipeakfit call whose caller gave a params list of a
\* length that is a non-zero multiple of 3.
DoneMultiWithTriples ==
  /\ call.phase = "done" /\ call.fn = "multipeakfit"
  /\ call.args.params.given
  /\ Len(call.args.params.v) > 0 /\ Len(call.args.params.v) % 3 = 0

\* C22: in multipeakfit, whenever the supplied params list has a length
\* that is a non-zero multiple of 3, the effective number of peaks is
\* len(params)/3 whatever npeak was requested, and the supplied values are
\* the initial values of the metadata, unchanged.
C22_ParamsLengthSetsNpeak ==
  DoneMultiWithTriples =>
    /\ call.npeak = Len(call.args.params.v) \div 3
    /\ call.parinfo # <<>> =>
         Column(call.parinfo, LAMBDA e : e.value) = call.args.params.v

\* What holds instead: the peak count is the larger of the requested count
\* and len(params)/3; the supplied values are used unchanged when the
\* requested count is not the larger one, and are otherwise repeated
\* (length 3) or replaced by [1, 0, 1] per peak.
NpeakOnlyGrows ==
  DoneMultiWithTriples =>
    \A k \in {Len(call.args.params.v) \div 3} :
      /\ call.npeak = IF k > call.args.npeak THEN k ELSE call.args.npeak
      /\ call.parinfo # <<>> =>
           Column(call.parinfo, LAMBDA e : e.value)
             = IF k >= call.args.npeak THEN call.args.params.v
               ELSE IF k = 1 THEN Repeat(call.args.params.v, call.args.npeak)
               ELSE Repeat(<<1, 0, 1>>, call.args.npeak)

(***************************************************************************)
(* The residual function of onedpeakfit.  Python binds positional          *)
(* arguments by position, so a value handed to onedpeak is kept with its   *)
(* kind: a function, an array or a number.  The peak shape is a box.       *)
(***************************************************************************)
FuncVal == [kind |-> "func", v |-> <<>>]

ArrayVal(s) == [kind |-> "array", v |-> s]

Scalar(n) == [kind |-> "num", v |-> <<n>>]

\* def onedpeak(peakfunc, x, H, A, dx, w): return H+A*peakfunc((x-dx), w)
\* Calling something that is not a function raises TypeError; x - dx is
\* taken element by element when x is an array.
onedpeak(peakfunc, x, H, A, dx, w) ==
    IF peakfunc.kind # "func" THEN [kind |-> "TypeError"]
    ELSE IF x.kind # "array" \/ {H.kind, A.kind, dx.kind, w.kind} # {"num"}
    THEN [kind |-> "TypeError"]
    ELSE [kind |-> "array",
          v |-> [k \in 1..Len(x.v) |->
                   H.v[1] + A.v[1] * Box1(x.v[k] - dx.v[1], w.v[1])]]

\* mpfitfun(peakfunc, x, y, err)(p): y - onedpeak(x, *p, peakfunc),
\* divided by err when there is one
onedpeakfit_f(peakfunc, x, y, err, p) ==
    LET m == onedpeak(ArrayVal(x), Scalar(p[1]), Scalar(p[2]), Scalar(p[3]),
                      Scalar(p[4]), peakfunc)
    IN  IF m.kind # "array" THEN m
        ELSE [kind |-> "residual",
              vec |-> [k \in 1..Len(y) |->
                         [data |-> y[k], model |-> m.v[k],
                          err |-> IF err = <<>> THEN 1 ELSE err[k]]]]

\* the model onedpeakfit returns: onedpeak(peakfunc, xax, *mpp)
onedpeakfit_model(peakfunc, xax, mpp) ==
    onedpeak(peakfunc, ArrayVal(xax), Scalar(mpp[1]), Scalar(mpp[2]),
             Scalar(mpp[3]), Scalar(mpp[4]))

OnedVectors == {<<0, 1, 0, 1>>, <<1, 2, 1, 2>>, <<2, -1, 2, 1>>, <<0, 3, 1, 1>>}

InitOned ==
    /\ res \in [phase : {"input"}, xax : Grids, data : [1..NSamp -> 0..1],
                err : {<<>>, [i \in 1..NSamp |-> i]}, p : OnedVectors]
    /\ defaults = Idle /\ call = Idle /\ dec = Idle /\ cb = Idle

\* one evaluation of the residual function by the solver, and the model
\* made from the same vector
OnedResidual ==
    /\ res.phase = "input"
    /\ res' = [res EXCEPT !.phase = "done"] @@
              [out |-> onedpeakfit_f(FuncVal, res.xax, res.data, res.err, res.p),
               model |-> onedpeakfit_model(FuncVal, res.xax, res.p)]
    /\ UNCHANGED <<defaults, call, dec, cb>>

NextOned == OnedResidual

SpecOned == InitOned /\ [][NextOned]_vars

\* C23: in onedpeakfit the residual for a vector [H, A, dx, w] is
\* (data - (H + A*peakfunc(x - dx, w))) / err (err 1 when absent), with
\* peakfunc, the abscissa and the four parameters in the same roles as in
\* onedpeak and in the model that onedpeakfit returns.
C23_ResidualMatchesModel ==
    res.phase = "done" =>
        /\ res.model.kind = "array"
        /\ res.out.kind = "residual"
        /\ \A k \in 1..NSamp :
             /\ res.out.vec[k].data = res.data[k]
             /\ res.out.vec[k].model
                  = res.p[1] + res.p[2] * Box1(res.xax[k] - res.p[3], res.p[4])
             /\ res.out.vec[k].model = res.model.v[k]
             /\ res.out.vec[k].err = IF res.err = <<>> THEN 1 ELSE res.err[k]

\* What holds instead: the returned model is H + A*peakfunc(x - dx, w),
\* and every evaluation of the residual function ends with TypeError.
ResidualAlwaysTypeError ==
    res.phase = "done" =>
        /\ res.model.kind = "array"
        /\ \A k \in 1..NSamp :
             res.model.v[k]
               = res.p[1] + res.p[2] * Box1(res.xax[k] - res.p[3], res.p[4])
        /\ res.out.kind = "TypeError"

====
